---- MODULE Spec2Model ----
(***************************************************************************)
(* Precise stepping engine of Prusa-Firmware-Buddy                         *)
(* (lib/Marlin/Marlin/src/feature/precise_stepping/precise_stepping.cpp).  *)
(*                                                                         *)
(* Numbers.  The time domain of the firmware (double/float seconds) is     *)
(* modelled on an integer grid of time units (tu), distances on an integer *)
(* grid of distance units (du) with one half step == 1 du.  The block      *)
(* catalogue below only contains blocks whose segment durations, positions *)
(* and step crossing times are integers on that grid, so the closed-form   *)
(* kinematics is evaluated without rounding.  Tolerances that are far      *)
(* below the grid (EPSILON, EPSILON_DISTANCE) compare as 0 < eps < 1.      *)
(* ticks_per_sec is the rational TICKS_NUM / TICKS_DEN ticks per tu.       *)
(*                                                                         *)
(* Flags.  Bit sets are sets of <<name, axis>> pairs; the per-axis bits    *)
(* DIR and ACTIVE are shared by move_t::flags and step_event_t::flags as   *)
(* the firmware assumes.                                                   *)
(***************************************************************************)
EXTENDS Integers, Naturals, Sequences, FiniteSets, TLC

\* ------------------------------------------------------------------ bounds
MaxBlocks == 2
MaxStops == 1
MaxLiveBlocks == 3
MaxMiss == 1
MAX_STEP_EVENTS_PRODUCED_PER_ONE_CALL == 5

\* ------------------------------------------------------- program constants
X_AXIS == 0
Y_AXIS == 1
Z_AXIS == 2
E_AXIS == 3
AXES == {X_AXIS, Y_AXIS, Z_AXIS, E_AXIS}

MOVE_SEGMENT_QUEUE_SIZE == 8
MOVE_SEGMENT_QUEUE_MIN_FREE_SLOTS == 1
STEP_EVENT_QUEUE_SIZE == 6
BLOCK_BUFFER_SIZE == 4
MAX_PRINT_TIME == 1000
BLOCK_DELAY_FOR_1ST_MOVE == 100

TICKS_NUM == 7
TICKS_DEN == 2
stepper_isr_period_in_ticks == 1000
min_delay == 6
min_reserve == 5
max_ticks == 32767
max_steps == 4
UINT16_MOD == 65536
UINT8_MOD == 256

\* Planner::mm_per_half_step / Planner::mm_per_step, in du
mm_per_half_step == [i \in AXES |-> 1]
mm_per_step == [i \in AXES |-> 2]

\* PreciseStepping::max_lookback_time with classic generators on every axis
max_lookback_time == 0
\* the 1 ms margin of the beginning empty move, in tu
BEGINNING_EMPTY_MOVE_MARGIN == 1

DBL_MAX == 1000000
NaN == 0 - 1000000
nullptr == 0 - 1

\* -------------------------------------------------------------------- flags
STEP_FLAG(axis) == <<"STEP", axis>>
DIR_FLAG(axis) == <<"DIR", axis>>
ACTIVE_FLAG(axis) == <<"ACTIVE", axis>>
STEP_EVENT_FLAG_BEGINNING_OF_MOVE_SEGMENT == <<"BEGINNING_OF_MOVE_SEGMENT", 0>>
STEP_EVENT_END_OF_MOTION == <<"END_OF_MOTION", 0>>
MOVE_FLAG_ACCELERATION_PHASE == <<"ACCELERATION_PHASE", 0>>
MOVE_FLAG_CRUISE_PHASE == <<"CRUISE_PHASE", 0>>
MOVE_FLAG_DECELERATION_PHASE == <<"DECELERATION_PHASE", 0>>
MOVE_FLAG_FIRST_MOVE_SEGMENT_OF_BLOCK == <<"FIRST_MOVE_SEGMENT_OF_BLOCK", 0>>
MOVE_FLAG_LAST_MOVE_SEGMENT_OF_BLOCK == <<"LAST_MOVE_SEGMENT_OF_BLOCK", 0>>
MOVE_FLAG_BEGINNING_EMPTY_MOVE == <<"BEGINNING_EMPTY_MOVE", 0>>
MOVE_FLAG_ENDING_EMPTY_MOVE == <<"ENDING_EMPTY_MOVE", 0>>

STEP_EVENT_FLAG_AXIS_MASK == {STEP_FLAG(i) : i \in AXES}
STEP_EVENT_FLAG_DIR_MASK == {DIR_FLAG(i) : i \in AXES}
STEP_EVENT_FLAG_AXIS_ACTIVE_MASK == {ACTIVE_FLAG(i) : i \in AXES}
\* the move flags of a step event ("no step or move flag overlap", line 922)
STEP_EVENT_FLAG_AXIS_OTHER_MASK ==
    {STEP_EVENT_FLAG_BEGINNING_OF_MOVE_SEGMENT, STEP_EVENT_END_OF_MOTION}

\* ---------------------------------------------------------------- numerics
SQR(x) == x * x

CeilDiv(a, b) == IF a >= 0 THEN (a + b - 1) \div b ELSE 0 - ((0 - a) \div b)

\* conversion double -> int32_t: truncation towards zero
TruncDiv(a, b) == IF a >= 0 THEN a \div b ELSE 0 - ((0 - a) \div b)

ISqrt(n) == CHOOSE r \in 0..n : r * r <= n /\ (r + 1) * (r + 1) > n

ISqrtUp(n) == IF SQR(ISqrt(n)) = n THEN ISqrt(n) ELSE ISqrt(n) + 1

Max(a, b) == IF a >= b THEN a ELSE b

Min(a, b) == IF a <= b THEN a ELSE b

ZeroVec == [i \in AXES |-> 0]

\* ------------------------------------------------------------------ blocks
\* block_t as delivered by the planner.  position is the absolute target of
\* a sync block (block.position); is_move() is false for a sync block.
MoveBlock(steps, dirs, mm, accel, v0, vn, v1) ==
    [steps |-> steps, direction_bits |-> dirs, millimeters |-> mm,
     acceleration |-> accel, initial_speed |-> v0, nominal_speed |-> vn,
     final_speed |-> v1, sync_position |-> FALSE, position |-> ZeroVec,
     h_id |-> 0]

SyncBlock(pos) ==
    [steps |-> ZeroVec, direction_bits |-> {}, millimeters |-> 0,
     acceleration |-> 1, initial_speed |-> 0, nominal_speed |-> 0,
     final_speed |-> 0, sync_position |-> TRUE, position |-> pos,
     h_id |-> 0]

StepsOn(axes, n) == [i \in AXES |-> IF i \in axes THEN n ELSE 0]

SyncPosition == [i \in AXES |-> IF i = X_AXIS THEN 10 ELSE IF i = E_AXIS THEN 5 ELSE 0]

\* The blocks the planner may deliver:
\*   a trapezoid on +X and +E (accel 1 du, cruise 2 du, decel 1 du),
\*   a triangle on -X (accel 1 du, decel 1 du, no cruise),
\*   a cruise-only block on +X with -E (1 step each),
\*   a sync block.
BlockCatalogue ==
    { MoveBlock(StepsOn({X_AXIS, E_AXIS}, 2), {}, 4, 2, 0, 2, 0),
      MoveBlock(StepsOn({X_AXIS}, 1), {X_AXIS}, 2, 2, 0, 2, 0),
      MoveBlock(StepsOn({X_AXIS, E_AXIS}, 1), {E_AXIS}, 2, 2, 1, 1, 1),
      SyncBlock(SyncPosition) }

is_move(block) == ~block.sync_position


\* ----------------------------------------------------------- data records
EmptyMove ==
    [move_t |-> 0, start_v |-> 0, half_accel |-> 0, print_time |-> 0,
     axes_r |-> ZeroVec, start_pos |-> ZeroVec, flags |-> {},
     reference_cnt |-> 0]

EmptyStepEvent == [time_ticks |-> 0, flags |-> {}]

EmptyStepEventInfo == [time |-> 0, flags |-> {}]

EmptyGenerator(axis) ==
    [axis |-> axis, current_move |-> nullptr, start_v |-> 0, accel |-> 0,
     start_pos |-> 0, step_dir |-> TRUE, reached_end_of_move_queue |-> FALSE]

\* step_generator_state_t after step_generator_state_clear()
ClearedStepGeneratorState ==
    [flags |-> {}, previous_step_time |-> 0, buffered_step |-> EmptyStepEvent,
     current_distance |-> ZeroVec, left_insert_start_of_move_segment |-> 0,
     step_events |-> [i \in AXES |-> EmptyStepEventInfo],
     step_event_index |-> <<X_AXIS, Y_AXIS, Z_AXIS, E_AXIS>>,
     initialized |-> FALSE]

\* ------------------------------------------------------ move segment queue
move_segment_queue_next_index(i) == (i + 1) % MOVE_SEGMENT_QUEUE_SIZE

move_segment_queue_size(s) ==
    (s.move_segment_queue.head - s.move_segment_queue.tail) % MOVE_SEGMENT_QUEUE_SIZE

move_segment_queue_free_slots(s) ==
    MOVE_SEGMENT_QUEUE_SIZE - 1 - move_segment_queue_size(s)

has_blocks_queued(s) == s.move_segment_queue.head # s.move_segment_queue.tail

has_unprocessed_move_segments_queued(s) ==
    s.move_segment_queue.head # s.move_segment_queue.unprocessed_tail

is_move_segment_queue_full(s) ==
    s.move_segment_queue.tail = move_segment_queue_next_index(s.move_segment_queue.head)

\* index of the slot, or nullptr
get_current_move_segment(s) ==
    IF has_blocks_queued(s) THEN s.move_segment_queue.tail ELSE nullptr

get_current_unprocessed_move_segment(s) ==
    IF has_unprocessed_move_segments_queued(s)
    THEN s.move_segment_queue.unprocessed_tail ELSE nullptr

get_next_free_move_segment(s) ==
    IF is_move_segment_queue_full(s) THEN nullptr ELSE s.move_segment_queue.head

\* the segment after `move`, or nullptr when `move` is the newest one
move_segment_queue_next_move(s, move) ==
    IF move_segment_queue_next_index(move) = s.move_segment_queue.head
    THEN nullptr ELSE move_segment_queue_next_index(move)

discard_current_move_segment(s) ==
    IF has_blocks_queued(s)
    THEN [s EXCEPT !.move_segment_queue.tail = move_segment_queue_next_index(@)]
    ELSE s

discard_current_unprocessed_move_segment(s) ==
    IF has_unprocessed_move_segments_queued(s)
    THEN [s EXCEPT !.move_segment_queue.unprocessed_tail = move_segment_queue_next_index(@)]
    ELSE s

move_segment_queue_clear(s) ==
    [s EXCEPT !.move_segment_queue.head = 0,
              !.move_segment_queue.tail = 0,
              !.move_segment_queue.unprocessed_tail = 0]

is_beginning_empty_move(move) == MOVE_FLAG_BEGINNING_EMPTY_MOVE \in move.flags

is_ending_empty_move(move) == MOVE_FLAG_ENDING_EMPTY_MOVE \in move.flags

\* true: the axis moves in the positive direction on this segment
get_move_step_dir(move, axis) == DIR_FLAG(axis) \notin move.flags

\* -------------------------------------------------------- step event queue
step_event_queue_next_index(i) == (i + 1) % STEP_EVENT_QUEUE_SIZE

is_step_event_queue_full(s) ==
    s.step_event_queue.tail = step_event_queue_next_index(s.step_event_queue.head)

has_step_events_queued(s) == s.step_event_queue.head # s.step_event_queue.tail

get_current_step_event(s) ==
    IF has_step_events_queued(s) THEN s.step_event_queue.tail ELSE nullptr

get_next_free_step_event(s) ==
    IF is_step_event_queue_full(s) THEN nullptr ELSE s.step_event_queue.head

discard_current_step_event(s) ==
    IF has_step_events_queued(s)
    THEN [s EXCEPT !.step_event_queue.tail = step_event_queue_next_index(@)]
    ELSE s

step_event_queue_clear(s) ==
    [s EXCEPT !.step_event_queue.head = 0, !.step_event_queue.tail = 0]

\* write `ev` into the free slot and publish it by advancing head
push_step_event(s, ev) ==
    [s EXCEPT !.step_event_queue.data[s.step_event_queue.head] = ev,
              !.step_event_queue.head = step_event_queue_next_index(@)]

\* ------------------------------------------------------------------ planner
\* block_buffer[1 .. processed] are the blocks already turned into move
\* segments and waiting for the Step-ISR; the rest is unprocessed.
get_current_unprocessed_block(s) ==
    IF s.planner.processed < Len(s.planner.block_buffer)
    THEN s.planner.processed + 1 ELSE nullptr

discard_current_unprocessed_block(s) ==
    IF s.planner.processed < Len(s.planner.block_buffer)
    THEN [s EXCEPT !.planner.processed = @ + 1,
                   !.h_taken = Append(@, s.planner.block_buffer[s.planner.processed + 1].h_id)]
    ELSE s

get_current_processed_block(s) ==
    IF s.planner.processed > 0 THEN 1 ELSE nullptr

discard_current_block(s) ==
    IF Len(s.planner.block_buffer) > 0
    THEN [s EXCEPT !.planner.block_buffer = Tail(@),
                   !.planner.processed = Max(@ - 1, 0),
                   !.h_retired = Append(@, s.planner.block_buffer[1].h_id)]
    ELSE s

movesplanned(s) == Len(s.planner.block_buffer)

nonbusy_movesplanned(s) == Len(s.planner.block_buffer) - s.planner.processed

movesplanned_processed(s) == s.planner.processed

clear_block_buffer(s) ==
    [s EXCEPT !.planner.block_buffer = <<>>,
              !.planner.processed = 0,
              !.planner.delay_before_delivering = 0]

\* Stepper::_set_position
stepper_set_position(s, position) == [s EXCEPT !.stepper.count_position = position]


\* ------------------------------------------------ block -> segment compiler
get_oriented_steps_from_block(block) ==
    [i \in AXES |-> IF i \in block.direction_bits THEN 0 - block.steps[i] ELSE block.steps[i]]

convert_oriented_steps_to_distance(steps) ==
    [i \in AXES |-> steps[i] * mm_per_step[i]]

get_active_axis_flags_from_block(block) ==
    {ACTIVE_FLAG(i) : i \in {a \in AXES : block.steps[a] > 0}}

\* (block.direction_bits & 0x0F) << MOVE_FLAG_DIR_SHIFT
get_dir_flags_from_block(block) == {DIR_FLAG(i) : i \in block.direction_bits}

reset_reached_end_of_move_queue_flag(s) ==
    [s EXCEPT !.classic_step_generator =
        [i \in AXES |-> [@[i] EXCEPT !.reached_end_of_move_queue = FALSE]]]

append_move_segment_to_queue(s, move_time, start_v, half_accel, print_time, axes_r, start_pos, flags) ==
    LET m == get_next_free_move_segment(s) IN
    IF m # nullptr
    THEN [s EXCEPT !.move_segment_queue.data[m] =
                       [move_t |-> move_time, start_v |-> start_v,
                        half_accel |-> half_accel, print_time |-> print_time,
                        axes_r |-> axes_r, start_pos |-> start_pos,
                        flags |-> flags, reference_cnt |-> 0],
                   !.move_segment_queue.head = move_segment_queue_next_index(m)]
    ELSE s

calc_axes_r_from_block(block) ==
    [i \in AXES |->
        IF block.steps[i] = 0 THEN 0
        ELSE IF i \in block.direction_bits
             THEN 0 - ((block.steps[i] * mm_per_step[i]) \div block.millimeters)
             ELSE (block.steps[i] * mm_per_step[i]) \div block.millimeters]

calc_end_position(start_pos, axes_r, dist) ==
    [i \in AXES |-> start_pos[i] + axes_r[i] * dist]

calc_velocity_after_acceleration(start_v, accel, dist) ==
    ISqrt(2 * dist * accel + SQR(start_v))

\* variant of calc_distance_required_to_reach_cruise_velocity that divides by
\* accel instead of 2 * accel
calc_distance_required_to_reach_cruise_velocity_unhalved(start_v, cruise_v, accel) ==
    IF SQR(cruise_v) - SQR(start_v) <= 0 THEN 0
    ELSE (SQR(cruise_v) - SQR(start_v)) \div accel

calc_distance_required_to_reach_cruise_velocity(start_v, cruise_v, accel) ==
    IF SQR(cruise_v) - SQR(start_v) <= 0 THEN 0
    ELSE (SQR(cruise_v) - SQR(start_v)) \div (2 * accel)

calc_distance_required_to_reach_cruise_velocity_clamped(start_v, cruise_v, accel) ==
    LET dist_out == calc_distance_required_to_reach_cruise_velocity(start_v, cruise_v, accel) IN
    IF dist_out <= 0 THEN 0 ELSE dist_out

calc_distance_in_which_we_start_decelerating(start_v, end_v, accel, dist) ==
    IF 2 * dist * accel + SQR(end_v) - SQR(start_v) <= 0 THEN 0
    ELSE (2 * dist * accel + SQR(end_v) - SQR(start_v)) \div (4 * accel)

calc_distance_in_which_we_start_decelerating_clamped(start_v, end_v, accel, dist) ==
    LET dist_out == calc_distance_in_which_we_start_decelerating(start_v, end_v, accel, dist) IN
    IF dist_out <= 0 THEN 0
    ELSE IF dist_out >= dist THEN dist
    ELSE dist_out

\* the three phase distances and the cruise velocity of a block
\* (append_move_segments_to_queue, lines 196-213)
calc_phases(block) ==
    LET millimeters == block.millimeters
        accel == block.acceleration
        start_v == block.initial_speed
        end_v == block.final_speed
        accel_dist0 == calc_distance_required_to_reach_cruise_velocity_clamped(start_v, block.nominal_speed, accel)
        decel_dist0 == calc_distance_required_to_reach_cruise_velocity_clamped(end_v, block.nominal_speed, accel)
        cruise_dist0 == millimeters - accel_dist0 - decel_dist0
        accel_dist1 == calc_distance_in_which_we_start_decelerating_clamped(start_v, end_v, accel, millimeters)
    IN  IF cruise_dist0 <= 0
        THEN [accel_dist |-> accel_dist1,
              decel_dist |-> Max(millimeters - accel_dist1, 0),
              cruise_dist |-> 0,
              cruise_v |-> calc_velocity_after_acceleration(start_v, accel, accel_dist1)]
        ELSE [accel_dist |-> accel_dist0, decel_dist |-> decel_dist0,
              cruise_dist |-> cruise_dist0, cruise_v |-> block.nominal_speed]

move_blocks_required(ph) ==
    (IF ph.accel_dist # 0 THEN 1 ELSE 0) + (IF ph.decel_dist # 0 THEN 1 ELSE 0)
        + (IF ph.cruise_dist # 0 THEN 1 ELSE 0)

\* variant of lacks_free_move_segments that forgets the reserved slots
lacks_free_move_segments_without_reserve(s, required) ==
    move_segment_queue_free_slots(s) < required

\* the back-pressure test of line 215
lacks_free_move_segments(s, required) ==
    move_segment_queue_free_slots(s) < required + MOVE_SEGMENT_QUEUE_MIN_FREE_SLOTS

\* the deceleration phase and the bookkeeping of lines 246-263
append_deceleration_phase(s, block, ph, print_time, start_pos) ==
    LET hasD == ph.decel_dist # 0
        decel_t == (ph.cruise_v - block.final_speed) \div block.acceleration
        flagsD == {MOVE_FLAG_DECELERATION_PHASE, MOVE_FLAG_LAST_MOVE_SEGMENT_OF_BLOCK}
                    \cup (IF ph.accel_dist # 0 \/ ph.cruise_dist # 0 THEN {} ELSE {MOVE_FLAG_FIRST_MOVE_SEGMENT_OF_BLOCK})
                    \cup get_dir_flags_from_block(block) \cup get_active_axis_flags_from_block(block)
        steps3 == [i \in AXES |-> s.total_start_pos_steps[i] + get_oriented_steps_from_block(block)[i]]
    IN  [s |-> reset_reached_end_of_move_queue_flag(
                 [(IF hasD
                   THEN append_move_segment_to_queue(s, decel_t, ph.cruise_v, 0 - (block.acceleration \div 2),
                                                     print_time, calc_axes_r_from_block(block), start_pos, flagsD)
                   ELSE s)
                  EXCEPT !.total_start_pos_steps = steps3,
                         !.total_start_pos = convert_oriented_steps_to_distance(steps3),
                         !.total_print_time = IF hasD THEN print_time + decel_t ELSE print_time,
                         !.h_appended = Append(@, block.h_id)]),
         ok |-> TRUE]

\* variant of append_cruise_phase whose cruise segment always closes the block
append_cruise_phase_always_last(s, block, ph, print_time, start_pos) ==
    LET hasC == ph.cruise_dist # 0
        cruise_t == IF ph.cruise_v = 0 THEN 0 ELSE ph.cruise_dist \div ph.cruise_v
        flagsC == {MOVE_FLAG_CRUISE_PHASE, MOVE_FLAG_LAST_MOVE_SEGMENT_OF_BLOCK}
                    \cup (IF ph.accel_dist # 0 THEN {} ELSE {MOVE_FLAG_FIRST_MOVE_SEGMENT_OF_BLOCK})
                    \cup get_dir_flags_from_block(block) \cup get_active_axis_flags_from_block(block)
    IN  append_deceleration_phase(
            IF hasC
            THEN append_move_segment_to_queue(s, cruise_t, ph.cruise_v, 0, print_time,
                                              calc_axes_r_from_block(block), start_pos, flagsC)
            ELSE s,
            block, ph,
            IF hasC THEN print_time + cruise_t ELSE print_time,
            IF hasC THEN calc_end_position(start_pos, calc_axes_r_from_block(block), ph.cruise_dist) ELSE start_pos)

\* the cruise phase, lines 234-244
append_cruise_phase(s, block, ph, print_time, start_pos) ==
    LET hasC == ph.cruise_dist # 0
        cruise_t == IF ph.cruise_v = 0 THEN 0 ELSE ph.cruise_dist \div ph.cruise_v
        flagsC == {MOVE_FLAG_CRUISE_PHASE}
                    \cup (IF ph.accel_dist # 0 THEN {} ELSE {MOVE_FLAG_FIRST_MOVE_SEGMENT_OF_BLOCK})
                    \cup (IF ph.decel_dist # 0 THEN {} ELSE {MOVE_FLAG_LAST_MOVE_SEGMENT_OF_BLOCK})
                    \cup get_dir_flags_from_block(block) \cup get_active_axis_flags_from_block(block)
    IN  append_deceleration_phase(
            IF hasC
            THEN append_move_segment_to_queue(s, cruise_t, ph.cruise_v, 0, print_time,
                                              calc_axes_r_from_block(block), start_pos, flagsC)
            ELSE s,
            block, ph,
            IF hasC THEN print_time + cruise_t ELSE print_time,
            IF hasC THEN calc_end_position(start_pos, calc_axes_r_from_block(block), ph.cruise_dist) ELSE start_pos)

\* variant of append_acceleration_phase that pushes no acceleration segment
append_acceleration_phase_skipped(s, block, ph) ==
    IF lacks_free_move_segments(s, move_blocks_required(ph))
    THEN [s |-> s, ok |-> FALSE]
    ELSE append_cruise_phase(s, block, ph, s.total_print_time, s.total_start_pos)

\* the back-pressure test and the acceleration phase, lines 215-232
append_acceleration_phase(s, block, ph) ==
    LET hasA == ph.accel_dist # 0
        accel_t == (ph.cruise_v - block.initial_speed) \div block.acceleration
        flagsA == {MOVE_FLAG_ACCELERATION_PHASE, MOVE_FLAG_FIRST_MOVE_SEGMENT_OF_BLOCK}
                    \cup (IF ph.cruise_dist # 0 \/ ph.decel_dist # 0 THEN {} ELSE {MOVE_FLAG_LAST_MOVE_SEGMENT_OF_BLOCK})
                    \cup get_dir_flags_from_block(block) \cup get_active_axis_flags_from_block(block)
    IN  IF lacks_free_move_segments(s, move_blocks_required(ph))
        THEN [s |-> s, ok |-> FALSE]
        ELSE append_cruise_phase(
                 IF hasA
                 THEN append_move_segment_to_queue(s, accel_t, block.initial_speed, block.acceleration \div 2,
                                                   s.total_print_time, calc_axes_r_from_block(block),
                                                   s.total_start_pos, flagsA)
                 ELSE s,
                 block, ph,
                 IF hasA THEN s.total_print_time + accel_t ELSE s.total_print_time,
                 IF hasA THEN calc_end_position(s.total_start_pos, calc_axes_r_from_block(block), ph.accel_dist)
                 ELSE s.total_start_pos)

\* returns [s |-> the new state, ok |-> the bool result]
append_move_segments_to_queue(s, block) ==
    append_acceleration_phase(s, block, calc_phases(block))


\* --------------------------------------------------------- step generators
get_move_axis_r(move, axis) == move.axes_r[axis]

\* Time at which start_v * t + accel * t^2 / 2 reaches `distance`, NaN when it
\* never does.
calc_time_for_distance(start_v, accel, distance, step_dir) ==
    LET sgn == IF step_dir THEN 1 ELSE 0 - 1
        v == sgn * start_v
        a == sgn * accel
        d == sgn * distance
        disc == SQR(start_v) + 2 * accel * distance
    IN  IF accel = 0
        THEN IF v > 0 THEN CeilDiv(d, v) ELSE NaN
        ELSE IF disc < 0 THEN NaN
        ELSE IF a > 0 THEN CeilDiv(ISqrtUp(disc) - v, a)
        ELSE CeilDiv(v - ISqrt(disc), 0 - a)

classic_step_generator_update(step_generator, current_move) ==
    LET axis == step_generator.axis
        axis_r == get_move_axis_r(current_move, axis)
    IN  [step_generator EXCEPT
            !.start_v = IF axis_r = 0 THEN 0 ELSE current_move.start_v * axis_r,
            !.accel = IF axis_r = 0 THEN 0 ELSE 2 * current_move.half_accel * axis_r,
            !.start_pos = current_move.start_pos[axis],
            !.step_dir = get_move_step_dir(current_move, axis)]

move_segment_processed_handler(s) ==
    LET move == get_current_unprocessed_move_segment(s) IN
    IF move # nullptr /\ s.move_segment_queue.data[move].reference_cnt = 0
    THEN [discard_current_unprocessed_move_segment(s) EXCEPT
            !.step_generator_state.left_insert_start_of_move_segment = @ + 1]
    ELSE s

\* the generator leaves its current move for next_move (lines 336-352)
classic_step_generator_advance(s, axis, next_move) ==
    LET gen == s.classic_step_generator[axis]
        s1 == [s EXCEPT !.move_segment_queue.data[gen.current_move].reference_cnt = @ - 1]
        s2 == [s1 EXCEPT !.move_segment_queue.data[next_move].reference_cnt = @ + 1]
        gen2 == classic_step_generator_update([gen EXCEPT !.current_move = next_move],
                                              s2.move_segment_queue.data[next_move])
        flags1 == (s.step_generator_state.flags \ {DIR_FLAG(axis)})
                    \cup (IF gen2.step_dir THEN {} ELSE {DIR_FLAG(axis)})
        flags2 == (flags1 \ {ACTIVE_FLAG(axis)})
                    \cup (s2.move_segment_queue.data[next_move].flags \cap {ACTIVE_FLAG(axis)})
    IN  [s2 EXCEPT !.classic_step_generator[axis] = gen2,
                   !.step_generator_state.flags = flags2]

RECURSIVE classic_step_generator_next_step_event(_, _, _)
\* returns [s |-> the new state, ev |-> step_event_info_t]
classic_step_generator_next_step_event(s, axis, flush_time) ==
    LET gen == s.classic_step_generator[axis]
        cur == s.move_segment_queue.data[gen.current_move]
        half_step_dist == mm_per_half_step[axis]
        current_distance == s.step_generator_state.current_distance[axis] * mm_per_step[axis]
        next_target == current_distance + (IF gen.step_dir THEN half_step_dist ELSE 0 - half_step_dist)
        next_distance == next_target - gen.start_pos
        step_time == calc_time_for_distance(gen.start_v, gen.accel, next_distance, gen.step_dir)
        elapsed_time == step_time + cur.print_time
        next_move == move_segment_queue_next_move(s, gen.current_move)
        none == [time |-> DBL_MAX, flags |-> {}]
    IN  IF step_time = NaN \/ step_time > cur.move_t
        THEN IF next_move # nullptr
             THEN classic_step_generator_next_step_event(
                      move_segment_processed_handler(classic_step_generator_advance(s, axis, next_move)),
                      axis, flush_time)
             ELSE [s |-> [s EXCEPT !.classic_step_generator[axis].reached_end_of_move_queue = TRUE],
                   ev |-> none]
        ELSE IF elapsed_time > flush_time
        THEN [s |-> [s EXCEPT !.classic_step_generator[axis].reached_end_of_move_queue = TRUE],
              ev |-> none]
        ELSE [s |-> [s EXCEPT !.step_generator_state.current_distance[axis] =
                                    @ + (IF gen.step_dir THEN 1 ELSE 0 - 1)],
              ev |-> [time |-> elapsed_time,
                      flags |-> {STEP_FLAG(axis)} \cup s.step_generator_state.flags]]

classic_step_generator_init(s, move, axis) ==
    LET m == s.move_segment_queue.data[move]
        gen == classic_step_generator_update(
                   [s.classic_step_generator[axis] EXCEPT !.current_move = move], m)
    IN  [s EXCEPT !.classic_step_generator[axis] = gen,
                  !.step_generator_state.flags =
                        @ \cup (m.flags \cap {DIR_FLAG(axis), ACTIVE_FLAG(axis)}),
                  !.move_segment_queue.data[move].reference_cnt = @ + 1]

\* variant of step_generator_next_step_event that ignores the flush horizon
step_generator_next_step_event_unbounded(s, axis, flush_time) ==
    classic_step_generator_next_step_event(s, axis, DBL_MAX)

step_generator_next_step_event(s, axis, flush_time) ==
    classic_step_generator_next_step_event(s, axis, flush_time)

\* ------------------------------------------------------------------ merger
\* step_event_index sorted by the time of the events, ties keep their order
step_generator_state_update_nearest_idx(sgs) ==
    LET pos(a) == CHOOSE k \in 1..4 : sgs.step_event_index[k] = a
        before(a, b) == \/ sgs.step_events[a].time < sgs.step_events[b].time
                        \/ /\ sgs.step_events[a].time = sgs.step_events[b].time
                           /\ pos(a) < pos(b)
        rank(a) == Cardinality({b \in AXES : before(b, a)})
    IN  [sgs EXCEPT !.step_event_index = [k \in 1..4 |-> CHOOSE a \in AXES : rank(a) = k - 1]]

\* the generators that reported "no event" are asked again by the next run
step_generator_state_restart(sgs) ==
    step_generator_state_update_nearest_idx(
        [sgs EXCEPT !.step_events =
            [i \in AXES |-> IF @[i].time = DBL_MAX THEN EmptyStepEventInfo ELSE @[i]]])

has_all_generators_reached_end_of_move_queue(s) ==
    \A i \in AXES : s.classic_step_generator[i].reached_end_of_move_queue

\* variant of calc_step_time_relative with the operands exchanged and no clamp
calc_step_time_relative_unclamped(step_time_absolute, previous_step_time) ==
    previous_step_time - step_time_absolute

\* step_time_relative of lines 402-411, in tu
calc_step_time_relative(step_time_absolute, previous_step_time) ==
    IF step_time_absolute - previous_step_time < 0 THEN 0
    ELSE step_time_absolute - previous_step_time

\* variant of calc_time_ticks that rounds to the nearest tick
calc_time_ticks_rounded(step_time_relative) ==
    (2 * step_time_relative * TICKS_NUM + TICKS_DEN) \div (2 * TICKS_DEN)

\* int32_t(step_time_relative * ticks_per_sec), line 413
calc_time_ticks(step_time_relative) == TruncDiv(step_time_relative * TICKS_NUM, TICKS_DEN)

\* returns [s |-> the new state, step_event |-> step_event_t, done |-> bool]
\* lines 429-433: the generator's next event is stored and the index re-sorted;
\* r is the result of step_generator_next_step_event
generate_next_step_event_store(r, old_nearest_step_event_idx) ==
    [r.s EXCEPT !.step_generator_state =
        step_generator_state_update_nearest_idx(
            [@ EXCEPT !.step_events[old_nearest_step_event_idx] = r.ev])]

\* line 434: the return value
generate_next_step_event_result(s, step_event) ==
    [s |-> s, step_event |-> step_event,
     done |-> s.step_generator_state.step_events[s.step_generator_state.step_event_index[1]].time = DBL_MAX]

\* returns [s |-> the new state, step_event |-> step_event_t, done |-> bool]
generate_next_step_event(s, flush_time) ==
    LET step_state == s.step_generator_state
        old_nearest_step_event_idx == step_state.step_event_index[1]
        old_nearest_step_event == step_state.step_events[old_nearest_step_event_idx].time
        produce == old_nearest_step_event # 0 /\ old_nearest_step_event # DBL_MAX
        marker == step_state.left_insert_start_of_move_segment # 0
        step_event ==
            IF produce
            THEN [time_ticks |-> calc_time_ticks(calc_step_time_relative(old_nearest_step_event, step_state.previous_step_time)),
                  flags |-> step_state.step_events[old_nearest_step_event_idx].flags
                            \cup (IF marker THEN {STEP_EVENT_FLAG_BEGINNING_OF_MOVE_SEGMENT} ELSE {})]
            ELSE [time_ticks |-> 0, flags |-> {}]
        s1 == IF produce
              THEN [s EXCEPT !.step_generator_state.left_insert_start_of_move_segment =
                                    IF marker THEN @ - 1 ELSE @,
                             !.step_generator_state.previous_step_time = old_nearest_step_event,
                             !.h_negative_step_time =
                                    @ \/ old_nearest_step_event < step_state.previous_step_time,
                             !.h_first_step_time =
                                    IF step_state.previous_step_time = 0
                                    THEN old_nearest_step_event ELSE @,
                             !.h_time_ticks =
                                    IF step_state.previous_step_time = 0
                                    THEN 0 ELSE @ + step_event.time_ticks,
                             !.h_last_step_time = old_nearest_step_event]
              ELSE s
    IN  generate_next_step_event_result(
            generate_next_step_event_store(
                step_generator_next_step_event(s1, old_nearest_step_event_idx, flush_time),
                old_nearest_step_event_idx),
            step_event)


\* --------------------------------------------------------------- lifecycle
step_generator_state_clear(s) ==
    [s EXCEPT !.step_generator_state = ClearedStepGeneratorState,
              !.classic_step_generator = [i \in AXES |-> EmptyGenerator(i)]]

\* variant of reset_from_halt that keeps the accumulated steps
reset_from_halt_keeping_steps(s) ==
    [step_generator_state_clear(s) EXCEPT
        !.total_print_time = 0,
        !.total_start_pos = ZeroVec]

reset_from_halt(s) ==
    [step_generator_state_clear(s) EXCEPT
        !.total_print_time = 0,
        !.total_start_pos = ZeroVec,
        !.total_start_pos_steps = ZeroVec]

\* returns [s |-> the new state, ok |-> move != nullptr]
append_beginning_empty_move(s) ==
    LET move == get_next_free_move_segment(s) IN
    IF move # nullptr
    THEN [s |-> reset_reached_end_of_move_queue_flag(
                  [s EXCEPT !.move_segment_queue.data[move] =
                                [move_t |-> max_lookback_time + BEGINNING_EMPTY_MOVE_MARGIN,
                                 start_v |-> 0, half_accel |-> 0, print_time |-> 0,
                                 axes_r |-> ZeroVec, start_pos |-> s.total_start_pos,
                                 flags |-> {MOVE_FLAG_BEGINNING_EMPTY_MOVE},
                                 reference_cnt |-> 0],
                            !.move_segment_queue.head = move_segment_queue_next_index(move),
                            !.total_print_time = 0 + (max_lookback_time + BEGINNING_EMPTY_MOVE_MARGIN)]),
          ok |-> TRUE]
    ELSE [s |-> s, ok |-> FALSE]

\* variant of append_block_discarding_move that stamps the segment with time 0
append_block_discarding_move_at_time_zero(s) ==
    LET move == get_next_free_move_segment(s) IN
    IF move # nullptr
    THEN [s |-> [s EXCEPT !.move_segment_queue.data[move] =
                              [move_t |-> 0, start_v |-> 0, half_accel |-> 0,
                               print_time |-> 0,
                               axes_r |-> ZeroVec, start_pos |-> s.total_start_pos,
                               flags |-> {MOVE_FLAG_FIRST_MOVE_SEGMENT_OF_BLOCK,
                                          MOVE_FLAG_LAST_MOVE_SEGMENT_OF_BLOCK},
                               reference_cnt |-> 0],
                          !.move_segment_queue.head = move_segment_queue_next_index(move)],
          ok |-> TRUE]
    ELSE [s |-> s, ok |-> FALSE]

append_block_discarding_move(s) ==
    LET move == get_next_free_move_segment(s) IN
    IF move # nullptr
    THEN [s |-> [s EXCEPT !.move_segment_queue.data[move] =
                              [move_t |-> 0, start_v |-> 0, half_accel |-> 0,
                               print_time |-> s.total_print_time,
                               axes_r |-> ZeroVec, start_pos |-> s.total_start_pos,
                               flags |-> {MOVE_FLAG_FIRST_MOVE_SEGMENT_OF_BLOCK,
                                          MOVE_FLAG_LAST_MOVE_SEGMENT_OF_BLOCK},
                               reference_cnt |-> 0],
                          !.move_segment_queue.head = move_segment_queue_next_index(move)],
          ok |-> TRUE]
    ELSE [s |-> s, ok |-> FALSE]

\* variant of append_ending_empty_move that leaves total_print_time as it was
append_ending_empty_move_keeping_print_time(s) ==
    LET move == get_next_free_move_segment(s) IN
    IF move # nullptr
    THEN [s |-> reset_reached_end_of_move_queue_flag(
                  [s EXCEPT !.move_segment_queue.data[move] =
                                [move_t |-> MAX_PRINT_TIME, start_v |-> 0, half_accel |-> 0,
                                 print_time |-> s.total_print_time,
                                 axes_r |-> ZeroVec, start_pos |-> s.total_start_pos,
                                 flags |-> {MOVE_FLAG_ENDING_EMPTY_MOVE},
                                 reference_cnt |-> 0],
                            !.move_segment_queue.head = move_segment_queue_next_index(move)]),
          ok |-> TRUE]
    ELSE [s |-> s, ok |-> FALSE]

append_ending_empty_move(s) ==
    LET move == get_next_free_move_segment(s) IN
    IF move # nullptr
    THEN [s |-> reset_reached_end_of_move_queue_flag(
                  [s EXCEPT !.move_segment_queue.data[move] =
                                [move_t |-> MAX_PRINT_TIME, start_v |-> 0, half_accel |-> 0,
                                 print_time |-> s.total_print_time,
                                 axes_r |-> ZeroVec, start_pos |-> s.total_start_pos,
                                 flags |-> {MOVE_FLAG_ENDING_EMPTY_MOVE},
                                 reference_cnt |-> 0],
                            !.move_segment_queue.head = move_segment_queue_next_index(move),
                            !.total_print_time = s.total_print_time + MAX_PRINT_TIME]),
          ok |-> TRUE]
    ELSE [s |-> s, ok |-> FALSE]

append_move_discarding_step_event(s, extra_step_flags) ==
    IF get_next_free_step_event(s) # nullptr
    THEN [s |-> [push_step_event(s,
                    [time_ticks |-> 0,
                     flags |-> s.step_generator_state.flags
                               \cup {STEP_EVENT_FLAG_BEGINNING_OF_MOVE_SEGMENT}
                               \cup extra_step_flags])
                 EXCEPT !.step_generator_state.previous_step_time = 0],
          ok |-> TRUE]
    ELSE [s |-> s, ok |-> FALSE]

\* ------------------------------------------------------------ block intake
\* elapsed: (ticks_ms() - waiting_before_delivering_start_time) >= delay
\* returns [s |-> the new state, waiting |-> bool]
is_waiting_before_delivering(s, elapsed) ==
    LET congested(st) ==
            IF movesplanned_processed(st) >= BLOCK_BUFFER_SIZE \div 2
            THEN ~has_all_generators_reached_end_of_move_queue(st)
            ELSE FALSE
        cleared == [s EXCEPT !.planner.delay_before_delivering = 0,
                             !.waiting_before_delivering_start_time = 0]
    IN  IF s.planner.delay_before_delivering # 0
        THEN IF s.waiting_before_delivering_start_time = 0
             THEN [s |-> [s EXCEPT !.waiting_before_delivering_start_time = 1],
                   waiting |-> TRUE]
             ELSE IF nonbusy_movesplanned(s) >= 3 \/ elapsed
             THEN [s |-> cleared, waiting |-> congested(cleared)]
             ELSE [s |-> s, waiting |-> TRUE]
        ELSE [s |-> s, waiting |-> congested(s)]

RECURSIVE fetch_next_block(_)
\* the while loop of lines 773-797;
\* returns [s, current_block (index into block_buffer or nullptr), ret (early return)]
fetch_next_block(s) ==
    LET current_block == get_current_unprocessed_block(s) IN
    IF current_block = nullptr
    THEN [s |-> s, current_block |-> nullptr, ret |-> FALSE]
    ELSE LET block == s.planner.block_buffer[current_block] IN
         IF is_move(block)
         THEN [s |-> s, current_block |-> current_block, ret |-> FALSE]
         ELSE IF s.total_print_time = 0
         THEN fetch_next_block(
                  discard_current_block(discard_current_unprocessed_block(
                      [stepper_set_position(s, block.position) EXCEPT
                          !.h_direct = @ \cup {block.h_id},
                          !.h_assert_failed = @ \/ has_blocks_queued(s)])))
         ELSE LET a == append_block_discarding_move(s) IN
              IF ~a.ok
              THEN [s |-> [s EXCEPT !.h_refused = @ \cup {block.h_id}],
                    current_block |-> current_block, ret |-> TRUE]
              ELSE fetch_next_block(discard_current_unprocessed_block(
                       [a.s EXCEPT !.h_appended = Append(@, block.h_id)]))

\* variant of discard_appended_block that discards a refused block as well
discard_appended_block_even_if_refused(a, id) ==
    discard_current_unprocessed_block(a.s)

\* lines 816-817: a is the result of append_move_segments_to_queue for block id
discard_appended_block(a, id) ==
    IF a.ok THEN discard_current_unprocessed_block(a.s)
    ELSE [a.s EXCEPT !.h_refused = @ \cup {id}]

\* lines 810-817: b is the result of the beginning empty move, when one was due
process_queue_of_blocks_append(b, current_block) ==
    IF ~b.ok THEN b.s
    ELSE discard_appended_block(
             append_move_segments_to_queue(b.s, b.s.planner.block_buffer[current_block]),
             b.s.planner.block_buffer[current_block].h_id)

\* variant of process_queue_of_blocks_fetched that prepends a beginning empty
\* move to every block
process_queue_of_blocks_fetched_always_beginning(f) ==
    IF f.ret THEN f.s
    ELSE IF f.current_block = nullptr
    THEN IF f.s.total_print_time # 0 /\ has_all_generators_reached_end_of_move_queue(f.s)
         THEN append_ending_empty_move(f.s).s
         ELSE f.s
    ELSE process_queue_of_blocks_append(append_beginning_empty_move(f.s), f.current_block)

\* lines 799-817: f is the result of the fetch loop
process_queue_of_blocks_fetched(f) ==
    IF f.ret THEN f.s
    ELSE IF f.current_block = nullptr
    THEN IF f.s.total_print_time # 0 /\ has_all_generators_reached_end_of_move_queue(f.s)
         THEN append_ending_empty_move(f.s).s
         ELSE f.s
    ELSE process_queue_of_blocks_append(
             IF f.s.total_print_time = 0
             THEN append_beginning_empty_move(f.s)
             ELSE [s |-> f.s, ok |-> TRUE],
             f.current_block)

\* variant of process_queue_of_blocks_delivering that resets to halt without
\* waiting for MoveSegQ to be empty
process_queue_of_blocks_delivering_without_halt_check(w) ==
    IF w.waiting THEN w.s
    ELSE process_queue_of_blocks_fetched(
             fetch_next_block(IF w.s.total_print_time >= MAX_PRINT_TIME
                              THEN reset_from_halt(w.s) ELSE w.s))

\* lines 757-797: w is the result of is_waiting_before_delivering
process_queue_of_blocks_delivering(w) ==
    IF w.waiting THEN w.s
    ELSE IF w.s.total_print_time >= MAX_PRINT_TIME /\ has_blocks_queued(w.s) THEN w.s
    ELSE process_queue_of_blocks_fetched(
             fetch_next_block(IF w.s.total_print_time >= MAX_PRINT_TIME
                              THEN reset_from_halt(w.s) ELSE w.s))

process_queue_of_blocks(s, elapsed) ==
    process_queue_of_blocks_delivering(is_waiting_before_delivering(s, elapsed))


\* ---------------------------------------------------------------- producer
STEP_GENERATOR_STATUS_OK == "OK"
STEP_GENERATOR_STATUS_FULL_STEP_EVENT_QUEUE == "FULL_STEP_EVENT_QUEUE"
STEP_GENERATOR_STATUS_NO_STEP_EVENT_PRODUCED == "NO_STEP_EVENT_PRODUCED"

step_generator_state_init(s, move) ==
    [classic_step_generator_init(
        classic_step_generator_init(
            classic_step_generator_init(
                classic_step_generator_init(
                    [s EXCEPT
                        !.step_generator_state.flags = {},
                        !.step_generator_state.previous_step_time = 0,
                        !.step_generator_state.buffered_step.flags = {},
                        !.step_generator_state.current_distance = ZeroVec,
                        !.step_generator_state.left_insert_start_of_move_segment = 0,
                        !.step_generator_state.step_event_index = <<X_AXIS, Y_AXIS, Z_AXIS, E_AXIS>>,
                        !.step_generator_state.step_events = [i \in AXES |-> EmptyStepEventInfo],
                        !.classic_step_generator =
                            [i \in AXES |-> [@[i] EXCEPT !.reached_end_of_move_queue = FALSE]],
                        !.h_assert_failed =
                            @ \/ ~is_beginning_empty_move(s.move_segment_queue.data[move])],
                    move, X_AXIS),
                move, Y_AXIS),
            move, Z_AXIS),
        move, E_AXIS)
     EXCEPT !.step_generator_state.initialized = TRUE]

\* variant of buffer_step_event that merges whatever the direction bits are
buffer_step_event_ignoring_direction(s, new_step_event) ==
    LET buffered_step == s.step_generator_state.buffered_step IN
    IF new_step_event.flags = {} THEN s
    ELSE IF buffered_step.flags = {}
    THEN [s EXCEPT !.step_generator_state.buffered_step = new_step_event]
    ELSE IF /\ new_step_event.time_ticks = 0
            /\ (buffered_step.flags \cap new_step_event.flags)
                  \cap (STEP_EVENT_FLAG_AXIS_MASK \cup STEP_EVENT_FLAG_AXIS_OTHER_MASK) = {}
    THEN [s EXCEPT !.step_generator_state.buffered_step.flags = @ \cup new_step_event.flags]
    ELSE [push_step_event(s, buffered_step) EXCEPT
            !.step_generator_state.buffered_step = new_step_event,
            !.h_assert_failed = @ \/ get_next_free_step_event(s) = nullptr]

\* variant of buffer_step_event that never merges two events
buffer_step_event_never_merging(s, new_step_event) ==
    LET buffered_step == s.step_generator_state.buffered_step IN
    IF new_step_event.flags = {} THEN s
    ELSE IF buffered_step.flags = {}
    THEN [s EXCEPT !.step_generator_state.buffered_step = new_step_event]
    ELSE [push_step_event(s, buffered_step) EXCEPT
            !.step_generator_state.buffered_step = new_step_event,
            !.h_assert_failed = @ \/ get_next_free_step_event(s) = nullptr]

\* variant of buffer_step_event that replaces the buffer without writing it
\* to StepEvQ when the merge is refused
buffer_step_event_dropping_buffer(s, new_step_event) ==
    LET buffered_step == s.step_generator_state.buffered_step IN
    IF new_step_event.flags = {} THEN s
    ELSE IF buffered_step.flags = {}
    THEN [s EXCEPT !.step_generator_state.buffered_step = new_step_event]
    ELSE IF /\ new_step_event.time_ticks = 0
            /\ (buffered_step.flags \cap new_step_event.flags)
                  \cap (STEP_EVENT_FLAG_AXIS_MASK \cup STEP_EVENT_FLAG_AXIS_OTHER_MASK) = {}
            /\ (buffered_step.flags \cap STEP_EVENT_FLAG_DIR_MASK)
                  = (new_step_event.flags \cap STEP_EVENT_FLAG_DIR_MASK)
    THEN [s EXCEPT !.step_generator_state.buffered_step.flags = @ \cup new_step_event.flags]
    ELSE [s EXCEPT !.step_generator_state.buffered_step = new_step_event]

\* accumulate into or flush the buffered step (lines 915-945)
buffer_step_event(s, new_step_event) ==
    LET buffered_step == s.step_generator_state.buffered_step IN
    IF new_step_event.flags = {} THEN s
    ELSE IF buffered_step.flags = {}
    THEN [s EXCEPT !.step_generator_state.buffered_step = new_step_event]
    ELSE IF /\ new_step_event.time_ticks = 0
            /\ (buffered_step.flags \cap new_step_event.flags)
                  \cap (STEP_EVENT_FLAG_AXIS_MASK \cup STEP_EVENT_FLAG_AXIS_OTHER_MASK) = {}
            /\ (buffered_step.flags \cap STEP_EVENT_FLAG_DIR_MASK)
                  = (new_step_event.flags \cap STEP_EVENT_FLAG_DIR_MASK)
    THEN [s EXCEPT !.step_generator_state.buffered_step.flags = @ \cup new_step_event.flags]
    ELSE [push_step_event(s, buffered_step) EXCEPT
            !.step_generator_state.buffered_step = new_step_event,
            !.h_assert_failed = @ \/ get_next_free_step_event(s) = nullptr]

RECURSIVE produce_step_events(_, _, _)
\* lines 912-953: g is the result of generate_next_step_event
produce_step_events_buffer(g, produced_step_events_cnt, flush_time) ==
    IF g.done
    THEN [s |-> buffer_step_event(g.s, g.step_event), cnt |-> 0, full |-> FALSE]
    ELSE produce_step_events(buffer_step_event(g.s, g.step_event),
                             produced_step_events_cnt + 1, flush_time)

\* the for loop of lines 903-954;
\* returns [s, cnt (produced_step_events_cnt after the loop), full (early return)]
produce_step_events(s, produced_step_events_cnt, flush_time) ==
    IF produced_step_events_cnt >= MAX_STEP_EVENTS_PRODUCED_PER_ONE_CALL
    THEN [s |-> s, cnt |-> produced_step_events_cnt, full |-> FALSE]
    ELSE IF s.step_generator_state.buffered_step.flags # {} /\ get_next_free_step_event(s) = nullptr
    THEN [s |-> s, cnt |-> produced_step_events_cnt, full |-> TRUE]
    ELSE produce_step_events_buffer(generate_next_step_event(s, flush_time),
                                    produced_step_events_cnt, flush_time)

RECURSIVE append_owed_discarding_step_events(_)
\* the while loop of lines 976-977
append_owed_discarding_step_events(s) ==
    IF s.step_generator_state.left_insert_start_of_move_segment > 0
    THEN LET a == append_move_discarding_step_event(s, {}) IN
         IF a.ok
         THEN append_owed_discarding_step_events(
                  [a.s EXCEPT !.step_generator_state.left_insert_start_of_move_segment = @ - 1])
         ELSE s
    ELSE s

\* the ending part, lines 957-994; returns [s, full]
finish_on_ending_empty_move(s) ==
    LET unprocessed_move == get_current_unprocessed_move_segment(s) IN
    IF unprocessed_move = nullptr
       \/ ~is_ending_empty_move(s.move_segment_queue.data[unprocessed_move])
    THEN [s |-> s, full |-> FALSE]
    ELSE IF s.step_generator_state.buffered_step.flags # {} /\ get_next_free_step_event(s) = nullptr
    THEN [s |-> s, full |-> TRUE]
    ELSE LET s1 == IF s.step_generator_state.buffered_step.flags # {}
                   THEN [push_step_event(s, s.step_generator_state.buffered_step) EXCEPT
                            !.step_generator_state.buffered_step.flags = {}]
                   ELSE s
             s2 == append_owed_discarding_step_events(s1)
         IN  IF s2.step_generator_state.left_insert_start_of_move_segment = 0
                /\ ~is_step_event_queue_full(s2)
             THEN [s |-> append_move_discarding_step_event(
                             discard_current_unprocessed_move_segment(s2),
                             {STEP_EVENT_END_OF_MOTION}).s,
                   full |-> FALSE]
             ELSE [s |-> s2, full |-> FALSE]

\* lines 957-996: p is the result of the for loop; returns [s, status]
process_one_move_segment_status(p) ==
    IF p.full THEN [s |-> p.s, status |-> STEP_GENERATOR_STATUS_FULL_STEP_EVENT_QUEUE]
    ELSE IF p.cnt # 0 THEN [s |-> p.s, status |-> STEP_GENERATOR_STATUS_OK]
    ELSE LET e == finish_on_ending_empty_move(p.s) IN
         IF e.full THEN [s |-> e.s, status |-> STEP_GENERATOR_STATUS_FULL_STEP_EVENT_QUEUE]
         ELSE [s |-> e.s, status |-> STEP_GENERATOR_STATUS_NO_STEP_EVENT_PRODUCED]

\* returns [s |-> the new state, status |-> StepGeneratorStatus]
process_one_move_segment_from_queue(s) ==
    LET move == get_current_unprocessed_move_segment(s) IN
    process_one_move_segment_status(
        IF move # nullptr
        THEN produce_step_events(
                 [(IF ~s.step_generator_state.initialized
                   THEN step_generator_state_init(s, move) ELSE s)
                  EXCEPT !.step_generator_state = step_generator_state_restart(@)],
                 0, s.total_print_time - max_lookback_time)
        ELSE [s |-> s, cnt |-> 0, full |-> FALSE])

RECURSIVE move_isr_advance(_, _, _)
\* lines 878-882: r is the result of process_one_move_segment_from_queue
move_isr_advance_produced(r, i, elapsed) ==
    IF r.status # STEP_GENERATOR_STATUS_NO_STEP_EVENT_PRODUCED THEN r.s
    ELSE move_isr_advance(r.s, i + 1, elapsed)

\* lines 873-882: s is the state after process_queue_of_blocks
move_isr_advance_segment(s, i, elapsed) ==
    IF ~has_unprocessed_move_segments_queued(s) THEN s
    ELSE move_isr_advance_produced(process_one_move_segment_from_queue(s), i, elapsed)

\* the for loop of lines 871-883
move_isr_advance(s, i, elapsed) ==
    IF i > movesplanned(s) THEN s
    ELSE move_isr_advance_segment(process_queue_of_blocks(s, elapsed), i, elapsed)

\* lines 848-883: r is the result of process_one_move_segment_from_queue
move_isr_produced(r, elapsed) ==
    IF r.status = STEP_GENERATOR_STATUS_OK THEN r.s
    ELSE IF r.status = STEP_GENERATOR_STATUS_FULL_STEP_EVENT_QUEUE
    THEN process_queue_of_blocks(r.s, elapsed)
    ELSE move_isr_advance(r.s, 0, elapsed)

\* variant of move_isr that does not look at stop_pending
move_isr_ignoring_stop(s, elapsed) ==
    move_isr_produced(process_one_move_segment_from_queue(s), elapsed)

move_isr(s, elapsed) ==
    IF s.stop_pending THEN s
    ELSE move_isr_produced(process_one_move_segment_from_queue(s), elapsed)


\* ---------------------------------------------------------------- Step-ISR
\* lines 508-519: a marker retires the move segment at the Step-ISR cursor
retire_current_move_segment(s) ==
    LET current_move == get_current_move_segment(s)
        current_block == get_current_processed_block(s)
        last == current_move # nullptr
                /\ MOVE_FLAG_LAST_MOVE_SEGMENT_OF_BLOCK \in s.move_segment_queue.data[current_move].flags
        s0 == [s EXCEPT !.h_null_deref =
                    @ \/ current_move = nullptr \/ (last /\ current_block = nullptr)]
        s1 == IF last /\ current_block # nullptr
                 /\ s0.planner.block_buffer[current_block].sync_position
              THEN stepper_set_position(s0, s0.planner.block_buffer[current_block].position)
              ELSE s0
        s2 == IF last THEN discard_current_block(s1) ELSE s1
    IN  discard_current_move_segment(s2)

\* variant of apply_step_event whose E step is pulsed but not counted
apply_step_event_uncounted_e(s, step_flags) ==
    LET step_dir == {i \in AXES : DIR_FLAG(i) \in step_flags}
        axis_move == {i \in AXES : ACTIVE_FLAG(i) \in step_flags}
        changed_dir_bits == (step_dir \ s.stepper.last_direction_bits)
                                \cup (s.stepper.last_direction_bits \ step_dir)
        count_direction == [i \in AXES |->
                                IF i \in changed_dir_bits
                                THEN (IF i \in step_dir THEN 0 - 1 ELSE 1)
                                ELSE s.stepper.count_direction[i]]
    IN  [s EXCEPT !.stepper.axis_did_move = axis_move,
                  !.stepper.last_direction_bits = step_dir,
                  !.stepper.count_direction = count_direction,
                  !.stepper.count_position =
                        [i \in AXES |-> IF STEP_FLAG(i) \in step_flags /\ i # E_AXIS
                                        THEN @[i] + count_direction[i] ELSE @[i]]]

\* variant of apply_step_event that caches the new direction bits without
\* updating count_direction
apply_step_event_stale_count_direction(s, step_flags) ==
    LET step_dir == {i \in AXES : DIR_FLAG(i) \in step_flags}
        axis_move == {i \in AXES : ACTIVE_FLAG(i) \in step_flags}
    IN  [s EXCEPT !.stepper.axis_did_move = axis_move,
                  !.stepper.last_direction_bits = step_dir,
                  !.stepper.count_position =
                        [i \in AXES |-> IF STEP_FLAG(i) \in step_flags
                                        THEN @[i] + s.stepper.count_direction[i] ELSE @[i]]]

\* lines 526-576: direction cache, step pulses and step counters
apply_step_event(s, step_flags) ==
    LET step_dir == {i \in AXES : DIR_FLAG(i) \in step_flags}
        axis_move == {i \in AXES : ACTIVE_FLAG(i) \in step_flags}
        changed_dir_bits == (step_dir \ s.stepper.last_direction_bits)
                                \cup (s.stepper.last_direction_bits \ step_dir)
        count_direction == [i \in AXES |->
                                IF i \in changed_dir_bits
                                THEN (IF i \in step_dir THEN 0 - 1 ELSE 1)
                                ELSE s.stepper.count_direction[i]]
    IN  [s EXCEPT !.stepper.axis_did_move = axis_move,
                  !.stepper.last_direction_bits = step_dir,
                  !.stepper.count_direction = count_direction,
                  !.stepper.count_position =
                        [i \in AXES |-> IF STEP_FLAG(i) \in step_flags
                                        THEN @[i] + count_direction[i] ELSE @[i]]]

\* variant of process_one_step_event_next that counts a miss whenever the
\* queue is empty after the event, END_OF_MOTION or not
process_one_step_event_next_counting_end_of_motion(s, step_flags) ==
    LET next_step_event == get_current_step_event(s) IN
    IF next_step_event # nullptr
    THEN [s |-> s, ticks |-> s.step_event_queue.data[next_step_event].time_ticks]
    ELSE [s |-> [s EXCEPT !.step_ev_miss = (@ + 1) % UINT8_MOD],
          ticks |-> stepper_isr_period_in_ticks]

\* lines 578-581: s is the state after the step event was applied
process_one_step_event_next(s, step_flags) ==
    LET next_step_event == get_current_step_event(s) IN
    IF next_step_event # nullptr
    THEN [s |-> s, ticks |-> s.step_event_queue.data[next_step_event].time_ticks]
    ELSE IF STEP_EVENT_END_OF_MOTION \notin step_flags
    THEN [s |-> [s EXCEPT !.step_ev_miss = (@ + 1) % UINT8_MOD],
          ticks |-> stepper_isr_period_in_ticks]
    ELSE [s |-> s, ticks |-> stepper_isr_period_in_ticks]

\* returns [s |-> the new state, ticks |-> ticks_to_next_isr]
process_one_step_event_from_queue(s) ==
    LET step_event == get_current_step_event(s) IN
    IF step_event = nullptr
    THEN [s |-> [s EXCEPT !.stepper.axis_did_move = {}],
          ticks |-> stepper_isr_period_in_ticks]
    ELSE LET step_flags == s.step_event_queue.data[step_event].flags IN
         process_one_step_event_next(
             apply_step_event(
                 discard_current_step_event(
                     IF STEP_EVENT_FLAG_BEGINNING_OF_MOVE_SEGMENT \in step_flags
                     THEN retire_current_move_segment(s) ELSE s),
                 step_flags),
             step_flags)

RECURSIVE step_isr_loop(_, _, _)
\* variant of step_isr_loop_wait that leaves left_ticks_to_next_step_event
\* alone when it ends the loop
step_isr_loop_wait_keeping_left_ticks(s, steps, time_increment) ==
    LET ticks_to_next_step_event == Min(s.left_ticks_to_next_step_event, max_ticks) IN
    IF ticks_to_next_step_event > min_delay \/ steps >= max_steps
    THEN [s |-> s, time_increment |-> time_increment + ticks_to_next_step_event]
    ELSE step_isr_loop([s EXCEPT !.left_ticks_to_next_step_event = @ - ticks_to_next_step_event],
                       steps, time_increment + ticks_to_next_step_event)

\* lines 621-634: the interval to the next step event; s and steps are the
\* state and the count after the fetch of lines 616-619
step_isr_loop_wait(s, steps, time_increment) ==
    LET ticks_to_next_step_event == Min(s.left_ticks_to_next_step_event, max_ticks) IN
    IF ticks_to_next_step_event > min_delay \/ steps >= max_steps
    THEN [s |-> [s EXCEPT !.left_ticks_to_next_step_event = @ - ticks_to_next_step_event],
          time_increment |-> time_increment + ticks_to_next_step_event]
    ELSE step_isr_loop([s EXCEPT !.left_ticks_to_next_step_event = @ - ticks_to_next_step_event],
                       steps, time_increment + ticks_to_next_step_event)

\* line 617: p is the result of process_one_step_event_from_queue
set_left_ticks_to_next_step_event(p) ==
    [p.s EXCEPT !.left_ticks_to_next_step_event = p.ticks]

\* the for loop of lines 608-634; returns [s, time_increment]
step_isr_loop(s, steps, time_increment) ==
    IF steps = max_steps THEN [s |-> s, time_increment |-> time_increment]
    ELSE IF s.stop_pending
    THEN [s |-> [s EXCEPT !.stepper.axis_did_move = {}],
          time_increment |-> stepper_isr_period_in_ticks]
    ELSE IF s.left_ticks_to_next_step_event = 0
    THEN step_isr_loop_wait(
             set_left_ticks_to_next_step_event(process_one_step_event_from_queue(s)),
             steps + 1, time_increment)
    ELSE step_isr_loop_wait(s, steps, time_increment)

\* lines 639-649: r is the result of the for loop
step_isr_schedule(r, latency) ==
    IF ((r.time_increment - (latency + min_reserve)) % UINT16_MOD) > max_ticks
    THEN [r.s EXCEPT !.step_timer_next = (latency + min_reserve) % UINT16_MOD,
                     !.step_dl_miss = (@ + 1) % UINT8_MOD]
    ELSE [r.s EXCEPT !.step_timer_next = r.time_increment % UINT16_MOD]

\* latency: timer ticks between the compare match and the read of the counter.
\* step_timer_next is the programmed compare value relative to the previous one.
step_isr(s, latency) ==
    step_isr_schedule(step_isr_loop(s, 0, 0), latency)

\* variant of reset_queues that leaves the halt state of the producer alone
reset_queues_without_reset_from_halt(s) ==
    LET s1 == move_segment_queue_clear(step_event_queue_clear(s))
        s2 == clear_block_buffer(s1)
    IN  [s2 EXCEPT !.step_dl_miss = 0,
                   !.step_ev_miss = 0,
                   !.left_ticks_to_next_step_event = 0,
                   !.stepper.axis_did_move = {},
                   !.stop_pending = FALSE,
                   !.h_taken = <<>>, !.h_retired = <<>>, !.h_appended = <<>>,
                   !.h_direct = {}, !.h_refused = {}, !.h_kinds = <<>>, !.h_fed = 0,
                   !.h_expected = s.stepper.count_position]

\* -------------------------------------------------------------- foreground
reset_queues(s) ==
    LET s1 == reset_from_halt(move_segment_queue_clear(step_event_queue_clear(s)))
        s2 == clear_block_buffer(s1)
    IN  [s2 EXCEPT !.step_dl_miss = 0,
                   !.step_ev_miss = 0,
                   !.left_ticks_to_next_step_event = 0,
                   !.stepper.axis_did_move = {},
                   !.stop_pending = FALSE,
                   !.h_taken = <<>>, !.h_retired = <<>>, !.h_appended = <<>>,
                   !.h_direct = {}, !.h_refused = {}, !.h_kinds = <<>>, !.h_fed = 0,
                   !.h_expected = s.stepper.count_position]

loop(s) == IF s.stop_pending THEN reset_queues(s) ELSE s

\* Planner: a block is queued behind the others; the first block of an empty
\* buffer arms the delivery delay.
planner_buffer_block(s, block) ==
    LET oriented == get_oriented_steps_from_block(block) IN
    [s EXCEPT !.planner.block_buffer = Append(@, [block EXCEPT !.h_id = s.h_fed + 1]),
              !.planner.delay_before_delivering =
                    IF Len(s.planner.block_buffer) = 0 THEN BLOCK_DELAY_FOR_1ST_MOVE ELSE @,
              !.h_fed = @ + 1,
              !.h_kinds = Append(@, IF is_move(block) THEN "move" ELSE "sync"),
              !.h_expected = IF is_move(block)
                             THEN [i \in AXES |-> @[i] + oriented[i]]
                             ELSE block.position]


\* ------------------------------------------------------------------- state
\* ------------------------------------------------------------- SpoolJoin
\* module/prusa/spool_join.cpp.  A SpoolJoin object is the record
\* [joins, num_joins]; joins is the array of join_config_t, indexed from 0.
\* tools of the printer (Configuration_XL.h), scaled down
EXTRUDERS == 5

\* joins.size(): one join less than there are tools
joins_size == EXTRUDERS - 1

\* numeric_limits<uint8_t>::max()
reset_value == 255

SpoolValues == (0..(EXTRUDERS - 1)) \cup {reset_value}

EmptyJoin == [spool_1 |-> reset_value, spool_2 |-> reset_value]

\* prusa_toolchanger.is_tool_enabled with every tool of the printer enabled
is_tool_enabled(tool) == tool \in 0..(EXTRUDERS - 1)

\* SpoolJoin::reset
spool_join_reset(sj) ==
    [sj EXCEPT !.joins = [i \in 0..(joins_size - 1) |-> EmptyJoin], !.num_joins = 0]

\* the for loop of add_join (lines 37-42): i = 0 followed by the ++i of the
\* loop resumes the search at index 1.  The loop has come back to a spool it
\* has already left after more than joins_size matches, and never ends.
RECURSIVE add_join_last_spool(_, _, _, _)
add_join_last_spool(sj, spool_1, i, matches) ==
    IF matches > joins_size THEN [spool |-> spool_1, diverged |-> TRUE]
    ELSE IF i >= sj.num_joins THEN [spool |-> spool_1, diverged |-> FALSE]
    ELSE IF sj.joins[i].spool_1 = spool_1
    THEN add_join_last_spool(sj, sj.joins[i].spool_2, 1, matches + 1)
    ELSE add_join_last_spool(sj, spool_1, i + 1, matches)

\* SpoolJoin::get_earliest_spool_1, with the same resumption at index 1
RECURSIVE get_earliest_spool_1_from(_, _, _, _)
get_earliest_spool_1_from(sj, spool_2, i, matches) ==
    IF matches > joins_size THEN [spool |-> spool_2, diverged |-> TRUE]
    ELSE IF i >= sj.num_joins THEN [spool |-> spool_2, diverged |-> FALSE]
    ELSE IF sj.joins[i].spool_2 = spool_2
    THEN get_earliest_spool_1_from(sj, sj.joins[i].spool_1, 1, matches + 1)
    ELSE get_earliest_spool_1_from(sj, spool_2, i + 1, matches)

get_earliest_spool_1(sj, spool_2) == get_earliest_spool_1_from(sj, spool_2, 0, 0)

\* SpoolJoin::add_join; diverged: the call never returns
add_join(sj, spool_1, spool_2) ==
    IF \/ sj.num_joins >= joins_size
       \/ ~is_tool_enabled(spool_1) \/ ~is_tool_enabled(spool_2)
       \/ spool_1 = spool_2
    THEN [sj |-> sj, ok |-> FALSE, diverged |-> FALSE]
    ELSE LET last == add_join_last_spool(sj, spool_1, 0, 0) IN
         IF last.diverged THEN [sj |-> sj, ok |-> FALSE, diverged |-> TRUE]
         ELSE IF get_earliest_spool_1(sj, spool_2).diverged
                 \/ get_earliest_spool_1(sj, last.spool).diverged
         THEN [sj |-> sj, ok |-> FALSE, diverged |-> TRUE]
         ELSE IF get_earliest_spool_1(sj, spool_2).spool
                    = get_earliest_spool_1(sj, last.spool).spool
         THEN [sj |-> sj, ok |-> FALSE, diverged |-> FALSE]
         ELSE IF last.spool = spool_2
         THEN [sj |-> sj, ok |-> FALSE, diverged |-> FALSE]
         ELSE IF \E i \in 0..(joins_size - 1) : sj.joins[i].spool_2 = spool_2
         THEN [sj |-> sj, ok |-> FALSE, diverged |-> FALSE]
         ELSE [sj |-> [sj EXCEPT
                        !.joins[sj.num_joins] = [spool_1 |-> last.spool, spool_2 |-> spool_2],
                        !.num_joins = @ + 1],
               ok |-> TRUE, diverged |-> FALSE]

\* SpoolJoin::remove_join_at, called with num_joins > 0 and idx < num_joins
remove_join_at(sj, idx) ==
    [sj EXCEPT !.joins = [@ EXCEPT ![idx] = sj.joins[sj.num_joins - 1],
                                   ![sj.num_joins - 1] = EmptyJoin],
               !.num_joins = @ - 1]

\* the for loop of remove_joins_containing (lines 82-88): the last join that
\* has the spool as spool_1, the last other join that has it as spool_2
followup_idx(sj, spool) ==
    LET found == {i \in 0..(sj.num_joins - 1) : sj.joins[i].spool_1 = spool} IN
    IF found = {} THEN joins_size ELSE CHOOSE i \in found : \A j \in found : j <= i

preceding_idx(sj, spool) ==
    LET found == {i \in 0..(sj.num_joins - 1) :
                        sj.joins[i].spool_1 # spool /\ sj.joins[i].spool_2 = spool} IN
    IF found = {} THEN joins_size ELSE CHOOSE i \in found : \A j \in found : j <= i

\* SpoolJoin::remove_joins_containing
remove_joins_containing(sj, spool) ==
    IF preceding_idx(sj, spool) # joins_size /\ followup_idx(sj, spool) # joins_size
    THEN [sj |-> remove_join_at(
                    [sj EXCEPT !.joins[preceding_idx(sj, spool)].spool_2 =
                                    sj.joins[followup_idx(sj, spool)].spool_2],
                    followup_idx(sj, spool)),
          ok |-> TRUE]
    ELSE IF preceding_idx(sj, spool) # joins_size
    THEN [sj |-> remove_join_at(sj, preceding_idx(sj, spool)), ok |-> TRUE]
    ELSE IF followup_idx(sj, spool) # joins_size
    THEN [sj |-> remove_join_at(sj, followup_idx(sj, spool)), ok |-> TRUE]
    ELSE [sj |-> sj, ok |-> FALSE]

\* SpoolJoin::get_join_for_tool; nullopt is reset_value
get_join_for_tool(sj, tool) ==
    LET found == {i \in 0..(sj.num_joins - 1) : sj.joins[i].spool_1 = tool} IN
    IF found = {} THEN reset_value
    ELSE sj.joins[CHOOSE i \in found : \A j \in found : i <= j].spool_2

\* SpoolJoin::serialize: a default serialized_state_t with the active joins
\* copied over
serialize(sj) ==
    [joins |-> [i \in 0..(joins_size - 1) |->
                    IF i < sj.num_joins THEN sj.joins[i] ELSE EmptyJoin]]

\* SpoolJoin::deserialize: reset, then add_join for every entry in turn; the
\* result of add_join is dropped
RECURSIVE deserialize_from(_, _, _)
deserialize_from(sj, from, i) ==
    IF i >= joins_size THEN [sj |-> sj, diverged |-> FALSE]
    ELSE LET r == add_join(sj, from.joins[i].spool_1, from.joins[i].spool_2) IN
         IF r.diverged THEN [sj |-> sj, diverged |-> TRUE]
         ELSE deserialize_from(r.sj, from, i + 1)

deserialize(sj, from) == deserialize_from(spool_join_reset(sj), from, 0)

\* the SpoolJoin object before its first reset: joins of reset_value pairs
\* (the default member initialisers of join_config_t), no active join
SpoolJoinConstructed ==
    [joins |-> [i \in 0..(joins_size - 1) |-> EmptyJoin], num_joins |-> 0]

\* ------------------------------------------------- Move-ISR, by statement
\* The position of the Move-ISR inside one of its queue appends: pc is the
\* source line of the statement to execute next (0: not in an append),
\* next_step_event / m the slot pointer the append holds, stored the fields of
\* that slot written so far.
ProducerIdle ==
    [pc |-> 0,
     next_step_event |-> nullptr, next_step_event_queue_head |-> 0,
     m |-> nullptr, next_move_segment_queue_head |-> 0,
     move |-> EmptyMove,
     stored |-> {},
     h_step_events |-> 0, h_moves |-> 0, h_beginnings |-> 0,
     h_incomplete_read |-> FALSE, h_unreleased_write |-> FALSE]

VARIABLES
    move_segment_queue,
    step_event_queue,
    step_generator_state,
    classic_step_generator,
    total_print_time,
    total_start_pos,
    total_start_pos_steps,
    left_ticks_to_next_step_event,
    waiting_before_delivering_start_time,
    stop_pending,
    step_dl_miss,
    step_ev_miss,
    planner,
    stepper,
    step_timer_next,
    h_taken,
    h_retired,
    h_appended,
    h_direct,
    h_refused,
    h_kinds,
    h_fed,
    h_expected,
    h_negative_step_time,
    h_first_step_time,
    h_time_ticks,
    h_last_step_time,
    h_assert_failed,
    h_null_deref,
    h_blocks_fed,
    h_stops,
    h_flushed,
    h_inert,
    h_isr,
    producer,
    spool_join,
    h_spool_join_hung

vars ==
    <<move_segment_queue,
      step_event_queue,
      step_generator_state,
      classic_step_generator,
      total_print_time,
      total_start_pos,
      total_start_pos_steps,
      left_ticks_to_next_step_event,
      waiting_before_delivering_start_time,
      stop_pending,
      step_dl_miss,
      step_ev_miss,
      planner,
      stepper,
      step_timer_next,
      h_taken,
      h_retired,
      h_appended,
      h_direct,
      h_refused,
      h_kinds,
      h_fed,
      h_expected,
      h_negative_step_time,
      h_first_step_time,
      h_time_ticks,
      h_last_step_time,
      h_assert_failed,
      h_null_deref,
      h_blocks_fed,
      h_stops,
      h_flushed,
      h_inert,
      h_isr,
      producer,
      spool_join,
      h_spool_join_hung>>

\* the state of the engine as one record, for the operators above
Cur ==
    [move_segment_queue |-> move_segment_queue,
     step_event_queue |-> step_event_queue,
     step_generator_state |-> step_generator_state,
     classic_step_generator |-> classic_step_generator,
     total_print_time |-> total_print_time,
     total_start_pos |-> total_start_pos,
     total_start_pos_steps |-> total_start_pos_steps,
     left_ticks_to_next_step_event |-> left_ticks_to_next_step_event,
     waiting_before_delivering_start_time |-> waiting_before_delivering_start_time,
     stop_pending |-> stop_pending,
     step_dl_miss |-> step_dl_miss,
     step_ev_miss |-> step_ev_miss,
     planner |-> planner,
     stepper |-> stepper,
     step_timer_next |-> step_timer_next,
     h_taken |-> h_taken,
     h_retired |-> h_retired,
     h_appended |-> h_appended,
     h_direct |-> h_direct,
     h_refused |-> h_refused,
     h_kinds |-> h_kinds,
     h_fed |-> h_fed,
     h_expected |-> h_expected,
     h_negative_step_time |-> h_negative_step_time,
     h_first_step_time |-> h_first_step_time,
     h_time_ticks |-> h_time_ticks,
     h_last_step_time |-> h_last_step_time,
     h_assert_failed |-> h_assert_failed,
     h_null_deref |-> h_null_deref]

Store(s) ==
    /\ move_segment_queue' = s.move_segment_queue
    /\ step_event_queue' = s.step_event_queue
    /\ step_generator_state' = s.step_generator_state
    /\ classic_step_generator' = s.classic_step_generator
    /\ total_print_time' = s.total_print_time
    /\ total_start_pos' = s.total_start_pos
    /\ total_start_pos_steps' = s.total_start_pos_steps
    /\ left_ticks_to_next_step_event' = s.left_ticks_to_next_step_event
    /\ waiting_before_delivering_start_time' = s.waiting_before_delivering_start_time
    /\ stop_pending' = s.stop_pending
    /\ step_dl_miss' = s.step_dl_miss
    /\ step_ev_miss' = s.step_ev_miss
    /\ planner' = s.planner
    /\ stepper' = s.stepper
    /\ step_timer_next' = s.step_timer_next
    /\ h_taken' = s.h_taken
    /\ h_retired' = s.h_retired
    /\ h_appended' = s.h_appended
    /\ h_direct' = s.h_direct
    /\ h_refused' = s.h_refused
    /\ h_kinds' = s.h_kinds
    /\ h_fed' = s.h_fed
    /\ h_expected' = s.h_expected
    /\ h_negative_step_time' = s.h_negative_step_time
    /\ h_first_step_time' = s.h_first_step_time
    /\ h_time_ticks' = s.h_time_ticks
    /\ h_last_step_time' = s.h_last_step_time
    /\ h_assert_failed' = s.h_assert_failed
    /\ h_null_deref' = s.h_null_deref

\* a handler of the engine leaves the appends of the statement-level Move-ISR
\* and the SpoolJoin object alone
Commit(s) ==
    /\ Store(s)
    /\ UNCHANGED <<producer, spool_join, h_spool_join_hung>>

\* counter - compare when the Step-ISR reads the timer: prompt or late
Latencies == {1, 2000}

Init ==
    /\ move_segment_queue =
            [data |-> [i \in 0..(MOVE_SEGMENT_QUEUE_SIZE - 1) |-> EmptyMove],
             head |-> 0, tail |-> 0, unprocessed_tail |-> 0]
    /\ step_event_queue =
            [data |-> [i \in 0..(STEP_EVENT_QUEUE_SIZE - 1) |-> EmptyStepEvent],
             head |-> 0, tail |-> 0]
    /\ step_generator_state = ClearedStepGeneratorState
    /\ classic_step_generator = [i \in AXES |-> EmptyGenerator(i)]
    /\ total_print_time = 0
    /\ total_start_pos = ZeroVec
    /\ total_start_pos_steps = ZeroVec
    /\ left_ticks_to_next_step_event = 0
    /\ waiting_before_delivering_start_time = 0
    /\ stop_pending = FALSE
    /\ step_dl_miss = 0
    /\ step_ev_miss = 0
    /\ planner = [block_buffer |-> <<>>, processed |-> 0, delay_before_delivering |-> 0]
    /\ stepper = [count_position |-> ZeroVec,
                  count_direction |-> [i \in AXES |-> 1],
                  last_direction_bits |-> {},
                  axis_did_move |-> {}]
    /\ step_timer_next = 0
    /\ h_taken = <<>>
    /\ h_retired = <<>>
    /\ h_appended = <<>>
    /\ h_direct = {}
    /\ h_refused = {}
    /\ h_kinds = <<>>
    /\ h_fed = 0
    /\ h_expected = ZeroVec
    /\ h_negative_step_time = FALSE
    /\ h_first_step_time = 0
    /\ h_time_ticks = 0
    /\ h_last_step_time = 0
    /\ h_assert_failed = FALSE
    /\ h_null_deref = FALSE
    /\ h_blocks_fed = 0
    /\ h_stops = 0
    /\ h_flushed = FALSE
    /\ h_inert = FALSE
    /\ h_isr = "none"
    /\ producer = ProducerIdle
    /\ spool_join = SpoolJoinConstructed
    /\ h_spool_join_hung = FALSE

\* ----------------------------------------------------------------- actions
\* the planner queues one more block; it is not fed again after a stop
PlannerBufferBlock ==
    /\ ~stop_pending
    /\ h_stops = 0
    /\ h_blocks_fed < MaxBlocks
    /\ Len(planner.block_buffer) < BLOCK_BUFFER_SIZE - 1
    /\ \E block \in BlockCatalogue : Commit(planner_buffer_block(Cur, block))
    /\ h_blocks_fed' = h_blocks_fed + 1
    /\ UNCHANGED <<h_stops, h_flushed, h_inert, h_isr>>

MoveIsr ==
    /\ \E elapsed \in BOOLEAN : Commit(move_isr(Cur, elapsed))
    /\ UNCHANGED <<h_blocks_fed, h_stops, h_flushed, h_inert, h_isr>>

StepIsr ==
    /\ \E latency \in Latencies :
            /\ latency # 1 => step_dl_miss < MaxMiss
            /\ Commit(step_isr(Cur, latency))
    /\ h_inert' = (h_inert \/ (stop_pending /\ has_step_events_queued(Cur)))
    /\ UNCHANGED <<h_blocks_fed, h_stops, h_flushed, h_isr>>

Stop ==
    /\ ~stop_pending
    /\ h_stops < MaxStops
    /\ Commit([Cur EXCEPT !.stop_pending = TRUE])
    /\ h_stops' = h_stops + 1
    /\ UNCHANGED <<h_blocks_fed, h_flushed, h_inert, h_isr>>

Loop ==
    /\ Commit(loop(Cur))
    /\ h_flushed' = IF stop_pending
                    THEN /\ has_step_events_queued(Cur)
                         /\ has_blocks_queued(Cur)
                         /\ planner.block_buffer # <<>>
                    ELSE h_flushed
    /\ UNCHANGED <<h_blocks_fed, h_stops, h_inert, h_isr>>

Next == PlannerBufferBlock \/ MoveIsr \/ StepIsr \/ Stop \/ Loop

Spec == Init /\ [][Next]_vars

\* ------------------------------------------------------------------ claims
\* The engine has drained: every block left the planner, both queues are
\* empty and the Move-ISR has returned the engine to halt.
Drained ==
    /\ planner.block_buffer = <<>>
    /\ ~has_blocks_queued(Cur)
    /\ ~has_step_events_queued(Cur)
    /\ total_print_time = 0
    /\ ~step_generator_state.initialized

OnlyMoveBlocks == \A k \in DOMAIN h_kinds : h_kinds[k] = "move"

\* C1: step conservation.  For any sequence of move blocks taken from the
\* planner without a stop, once the engine has drained, count_position has
\* changed on every axis by exactly the sum of the signed steps of the blocks
\* (h_expected accumulates get_oriented_steps_from_block of every block fed).
C1_StepConservation ==
    (Drained /\ h_stops = 0 /\ OnlyMoveBlocks)
        => stepper.count_position = h_expected

\* two move blocks were drained and left a non-zero displacement
C1_Witness ==
    /\ Drained /\ h_stops = 0 /\ OnlyMoveBlocks
    /\ Len(h_kinds) >= 2
    /\ \E i \in AXES : stepper.count_position[i] < 0
    /\ \E i \in AXES : stepper.count_position[i] > 0

\* the indices of the step events queued in StepEvQ, oldest first
QueuedStepEvents ==
    {i \in 0..(STEP_EVENT_QUEUE_SIZE - 1) :
        (i - step_event_queue.tail) % STEP_EVENT_QUEUE_SIZE
            < (step_event_queue.head - step_event_queue.tail) % STEP_EVENT_QUEUE_SIZE}

HasStep(ev) == ev.flags \cap STEP_EVENT_FLAG_AXIS_MASK # {}

PlannerBufferS4 ==
    /\ ~stop_pending
    /\ h_blocks_fed < 3
    /\ Len(planner.block_buffer) < BLOCK_BUFFER_SIZE - 1
    /\ \E block \in BlockCatalogue :
            /\ is_move(block) <=> h_blocks_fed # 1
            /\ Commit(planner_buffer_block(Cur, block))
    /\ h_blocks_fed' = h_blocks_fed + 1
    /\ UNCHANGED <<h_stops, h_flushed, h_inert, h_isr>>

NextS4 == PlannerBufferS4 \/ MoveIsr \/ StepIsr

SpecS4 == Init /\ [][NextS4]_vars

\* C3: sync block ordering (S4).  When the planner delivered {move A, sync
\* block with position P, move B}, after the engine drains count_position
\* equals P plus the signed steps of B (h_expected is set to P by the sync
\* block and advanced by the oriented steps of B).
C3_SyncOrdering ==
    (Drained /\ h_kinds = <<"move", "sync", "move">>)
        => stepper.count_position = h_expected

\* the fresh-halt state of the engine
FreshHalt ==
    /\ ~has_step_events_queued(Cur)
    /\ ~has_blocks_queued(Cur)
    /\ ~has_unprocessed_move_segments_queued(Cur)
    /\ total_print_time = 0
    /\ total_start_pos = ZeroVec
    /\ total_start_pos_steps = ZeroVec
    /\ step_generator_state = ClearedStepGeneratorState
    /\ left_ticks_to_next_step_event = 0
    /\ stepper.axis_did_move = {}
    /\ ~stop_pending

\* C4: stop safety.  From any reachable state with stop_pending set, running
\* reset_queues (through loop(), the only step that clears stop_pending)
\* yields the fresh-halt state: both queues empty, total_print_time,
\* total_start_pos and total_start_pos_steps zero, merger state cleared,
\* left_ticks_to_next_step_event = 0, axis_did_move = 0, stop_pending false;
\* the step counters count_position are left unchanged.
C4_StopSafety ==
    [][(stop_pending /\ ~stop_pending')
            => (FreshHalt' /\ stepper'.count_position = stepper.count_position)]_vars

\* a stop was served while step events, move segments and planner blocks
\* were queued and after steps had been counted
C4_Witness ==
    /\ h_flushed
    /\ FreshHalt
    /\ stepper.count_position # ZeroVec

\* C5 as claimed: while stop_pending is true, move_isr changes no state at
\* all, and step_isr dequeues no step event, moves no step counter, sets
\* axis_did_move to 0 and programs the next compare one idle period
\* (stepper_isr_period_in_ticks) after the previous one.
C5_IsrsInertAsClaimed ==
    stop_pending =>
        /\ \A elapsed \in BOOLEAN : move_isr(Cur, elapsed) = Cur
        /\ \A latency \in Latencies :
                step_isr(Cur, latency) =
                    [Cur EXCEPT !.stepper.axis_did_move = {},
                                !.step_timer_next = stepper_isr_period_in_ticks]

\* C5 (amended): while stop_pending is true, move_isr changes no state at
\* all, and step_isr dequeues no step event, moves no step counter and sets
\* axis_did_move to 0; it programs the next compare one idle period after the
\* previous one, unless it was entered later than that: then the deadline
\* check programs the compare min_reserve ticks after the counter and counts
\* one step_dl_miss.
C5_IsrsInert ==
    stop_pending =>
        /\ \A elapsed \in BOOLEAN : move_isr(Cur, elapsed) = Cur
        /\ \A latency \in Latencies :
                step_isr(Cur, latency) =
                    IF latency + min_reserve <= stepper_isr_period_in_ticks
                    THEN [Cur EXCEPT !.stepper.axis_did_move = {},
                                     !.step_timer_next = stepper_isr_period_in_ticks]
                    ELSE [Cur EXCEPT !.stepper.axis_did_move = {},
                                     !.step_timer_next = latency + min_reserve,
                                     !.step_dl_miss = (@ + 1) % UINT8_MOD]

\* a Step-ISR fired during a pending stop with step events queued, which are
\* still queued, as are unprocessed move segments and a planner block
C5_Witness ==
    /\ stop_pending
    /\ h_inert
    /\ has_step_events_queued(Cur)
    /\ has_unprocessed_move_segments_queued(Cur)
    /\ get_current_unprocessed_block(Cur) # nullptr

MoveSegmentSlots == 0..(MOVE_SEGMENT_QUEUE_SIZE - 1)

\* the slots of MoveSegQ between the Step-ISR cursor (tail) and head
QueuedMoveSegments ==
    {i \in MoveSegmentSlots :
        (i - move_segment_queue.tail) % MOVE_SEGMENT_QUEUE_SIZE
            < (move_segment_queue.head - move_segment_queue.tail) % MOVE_SEGMENT_QUEUE_SIZE}

\* the slots between the generators' cursor (unprocessed_tail) and head
UnprocessedMoveSegments ==
    {i \in MoveSegmentSlots :
        (i - move_segment_queue.unprocessed_tail) % MOVE_SEGMENT_QUEUE_SIZE
            < (move_segment_queue.head - move_segment_queue.unprocessed_tail)
                    % MOVE_SEGMENT_QUEUE_SIZE}

GeneratorsOn(i) == {a \in AXES : classic_step_generator[a].current_move = i}

\* C6: reference-count soundness.  In every reachable state between the
\* initialisation of the generators and the next halt, every segment in
\* MoveSegQ has reference_cnt equal to the number of the four axis generators
\* whose current_move is that segment, so that the counts over the queue sum
\* to 4 (every generator rests on a segment of the queue).
C6_ReferenceCountSoundness ==
    step_generator_state.initialized =>
        /\ \A i \in QueuedMoveSegments :
                move_segment_queue.data[i].reference_cnt = Cardinality(GeneratorsOn(i))
        /\ \A a \in AXES : classic_step_generator[a].current_move \in QueuedMoveSegments

\* C7: a move segment with reference_cnt > 0 is never freed.  The Move-ISR
\* discards from the unprocessed cursor only segments whose reference_cnt is
\* 0, whatever their kind: every segment the generators' cursor has passed
\* and the Step-ISR has not retired yet has reference_cnt = 0.
C7_ReferencedSegmentNeverFreed ==
    \A i \in QueuedMoveSegments \ UnprocessedMoveSegments :
        move_segment_queue.data[i].reference_cnt = 0

MoveBlocks == {block \in BlockCatalogue : is_move(block)}

\* the number of segments a block compiles to: what
\* append_move_segments_to_queue appends to an empty queue
SegmentsOf(block) ==
    move_segment_queue_size(
        append_move_segments_to_queue(move_segment_queue_clear(Cur), block).s)

\* C8: back-pressure.  append_move_segments_to_queue returns false exactly
\* when the free slots of MoveSegQ are fewer than the number of phases of the
\* block with a non-zero distance plus MOVE_SEGMENT_QUEUE_MIN_FREE_SLOTS; when
\* it returns false it has changed nothing, and the caller
\* (process_queue_of_blocks) leaves the block at the planner's unprocessed
\* cursor, so that the same block is retried on a later intake.
C8_BackPressure ==
    /\ \A block \in MoveBlocks :
            LET r == append_move_segments_to_queue(Cur, block) IN
            /\ r.ok <=> (move_segment_queue_free_slots(Cur)
                            >= SegmentsOf(block) + MOVE_SEGMENT_QUEUE_MIN_FREE_SLOTS)
            /\ ~r.ok => r.s = Cur
            /\ r.ok => move_segment_queue_size(r.s)
                            = move_segment_queue_size(Cur) + SegmentsOf(block)
    /\ LET current_block == get_current_unprocessed_block(Cur) IN
       (/\ current_block # nullptr
        /\ is_move(planner.block_buffer[current_block])
        /\ total_print_time # 0
        /\ move_segment_queue_free_slots(Cur)
                < SegmentsOf(planner.block_buffer[current_block])
                        + MOVE_SEGMENT_QUEUE_MIN_FREE_SLOTS)
            => \A elapsed \in BOOLEAN :
                    LET q == process_queue_of_blocks(Cur, elapsed) IN
                    /\ q.planner = planner
                    /\ q.move_segment_queue = move_segment_queue
                    /\ q.total_print_time = total_print_time
                    /\ q.h_taken = h_taken

\* the block at the planner's unprocessed cursor is a move block that
\* MoveSegQ cannot take although slots are free: it is refused and kept
C8_Witness ==
    LET current_block == get_current_unprocessed_block(Cur) IN
    /\ current_block # nullptr
    /\ is_move(planner.block_buffer[current_block])
    /\ total_print_time # 0
    /\ ~stop_pending
    /\ move_segment_queue_free_slots(Cur) > 0
    /\ ~append_move_segments_to_queue(Cur, planner.block_buffer[current_block]).ok
    /\ h_taken = <<1>>

\* ------------------------------------------------------------------- C9
NotDirect(id) == id \notin h_direct

\* C9 (queue saturation): blocks leave the unprocessed cursor strictly in
\* planner order and each exactly once; a block has left the cursor if and
\* only if its move segments (or its block-discarding segment) were appended,
\* in the same intake, so a refused block is neither skipped nor appended
\* twice; the Step-ISR discards planner blocks in that same order.
C9_QueueSaturation ==
    /\ \A k \in DOMAIN h_taken : h_taken[k] = k
    /\ h_appended = SelectSeq(h_taken, NotDirect)
    /\ Len(h_retired) <= Len(h_taken)
    /\ h_retired = SubSeq(h_taken, 1, Len(h_retired))
    /\ planner.processed = Len(h_taken) - Len(h_retired)

C9_Witness ==
    /\ 2 \in h_refused
    /\ h_taken = <<1, 2>>
    /\ h_appended = <<1, 2>>
    /\ h_retired = <<1, 2>>
    /\ Drained
    /\ stepper.count_position = h_expected

\* ------------------------------------------------------------------ C10
\* The ISRs are hardware timer interrupts that are re-armed on every exit
\* (step_isr always programs the next compare value, the Move-ISR timer is
\* periodic), and the millisecond clock behind `elapsed` keeps advancing:
\* neither ISR can be postponed forever.  No stop is requested.  h_isr
\* records the interrupt served last.
LivePlannerBufferBlock ==
    /\ h_blocks_fed < MaxLiveBlocks
    /\ Len(planner.block_buffer) < BLOCK_BUFFER_SIZE - 1
    /\ \E block \in BlockCatalogue : Commit(planner_buffer_block(Cur, block))
    /\ h_blocks_fed' = h_blocks_fed + 1
    /\ UNCHANGED <<h_stops, h_flushed, h_inert, h_isr>>

LiveMoveIsr ==
    /\ \E elapsed \in BOOLEAN :
            /\ Commit(move_isr(Cur, elapsed))
            /\ h_isr' = IF elapsed THEN "move_elapsed" ELSE "move"
    /\ UNCHANGED <<h_blocks_fed, h_stops, h_flushed, h_inert>>

LiveStepIsr ==
    /\ \E latency \in Latencies :
            /\ latency # 1 => step_dl_miss < MaxMiss
            /\ Commit(step_isr(Cur, latency))
    /\ h_isr' = "step"
    /\ UNCHANGED <<h_blocks_fed, h_stops, h_flushed, h_inert>>

NextLive == LivePlannerBufferBlock \/ LiveMoveIsr \/ LiveStepIsr

\* each timer interrupt is served again after any other step has been taken
MoveIsrServed == h_isr' = "move_elapsed"

StepIsrServed == h_isr' = "step"

LiveSpec ==
    Init /\ [][NextLive]_vars /\ WF_h_isr(MoveIsrServed) /\ WF_h_isr(StepIsrServed)

Halted ==
    /\ Drained
    /\ ~has_unprocessed_move_segments_queued(Cur)
    /\ step_generator_state = ClearedStepGeneratorState
    /\ left_ticks_to_next_step_event = 0

\* segments are queued, yet the Move-ISR changes nothing but the order of the
\* idle generators in the merger and the Step-ISR changes no queue
Stuck ==
    /\ total_print_time # 0
    /\ has_blocks_queued(Cur)
    /\ \A elapsed \in BOOLEAN :
            [move_isr(Cur, elapsed) EXCEPT !.step_generator_state.step_event_index =
                step_generator_state.step_event_index] = Cur
    /\ LET r == step_isr(Cur, 1)
       IN  /\ r.move_segment_queue = move_segment_queue
           /\ r.step_event_queue = step_event_queue
           /\ r.planner = planner
           /\ r.stepper.count_position = stepper.count_position

\* C10 (drain and halt): with both ISRs firing fairly and no stop, once
\* motion has started (total_print_time # 0) the engine eventually, for any
\* finite sequence of move and sync blocks handed over by the planner,
\* empties the planner, MoveSegQ and StepEvQ and is back in the
\* reset_from_halt state: total_print_time = 0 and the merger state cleared;
\* it is never stuck with a non-empty queue.
C10_DrainAndHalt == ((total_print_time # 0) ~> Halted) /\ [](~Stuck)

\* ------------------------------------------------------------------ C11
\* the step events the merger may hand to the producer: one or two steps,
\* with or without a marker, with either direction of X, with or without the
\* active bits of the moving axes, due at once or later
NewStepEvents ==
    {[time_ticks |-> t, flags |-> f] :
        t \in {0, 7},
        f \in (SUBSET {STEP_FLAG(X_AXIS), STEP_FLAG(E_AXIS), DIR_FLAG(X_AXIS),
                       ACTIVE_FLAG(X_AXIS), ACTIVE_FLAG(E_AXIS),
                       STEP_EVENT_FLAG_BEGINNING_OF_MOVE_SEGMENT}) \ {{}}}

\* the producer holds a buffered step and StepEvQ has the free slot that
\* line 908 has checked
HoldsBufferedStep ==
    /\ step_generator_state.buffered_step.flags # {}
    /\ get_next_free_step_event(Cur) # nullptr

\* the new event was ORed into the buffer, StepEvQ untouched
MergedInto(s, ev) ==
    s = [Cur EXCEPT !.step_generator_state.buffered_step.flags = @ \cup ev.flags]

\* the buffer was written to StepEvQ as it was and replaced by the new event
FlushedAndReplacedBy(s, ev) ==
    s = [Cur EXCEPT
            !.step_event_queue.data[step_event_queue.head] =
                    step_generator_state.buffered_step,
            !.step_event_queue.head = step_event_queue_next_index(@),
            !.step_generator_state.buffered_step = ev]

\* C11 as claimed: with a non-empty buffer a new event is merged exactly
\* when its time_ticks is 0, it repeats no step bit and no active bit already
\* set in the buffer and its direction bits equal the buffer's; otherwise the
\* buffer is written to StepEvQ unchanged and replaced by the new event.
C11_CoalescingRuleAsClaimed ==
    HoldsBufferedStep =>
        \A ev \in NewStepEvents :
            IF /\ ev.time_ticks = 0
               /\ (step_generator_state.buffered_step.flags \cap ev.flags)
                     \cap (STEP_EVENT_FLAG_AXIS_MASK \cup STEP_EVENT_FLAG_AXIS_ACTIVE_MASK) = {}
               /\ (step_generator_state.buffered_step.flags \cap STEP_EVENT_FLAG_DIR_MASK)
                     = (ev.flags \cap STEP_EVENT_FLAG_DIR_MASK)
            THEN MergedInto(buffer_step_event(Cur, ev), ev)
            ELSE FlushedAndReplacedBy(buffer_step_event(Cur, ev), ev)

\* C11 (amended): with a non-empty buffer a new event is merged (flags ORed,
\* nothing written to StepEvQ) exactly when its time_ticks is 0, it repeats
\* no step bit and no BeginningOfMoveSegment or EndOfMotion bit already set
\* in the buffer, and its direction bits equal the buffer's; active bits may
\* repeat.  Otherwise the buffer is written to StepEvQ unchanged and replaced
\* by the new event.
C11_CoalescingRule ==
    HoldsBufferedStep =>
        \A ev \in NewStepEvents :
            IF /\ ev.time_ticks = 0
               /\ (step_generator_state.buffered_step.flags \cap ev.flags)
                     \cap (STEP_EVENT_FLAG_AXIS_MASK
                            \cup {STEP_EVENT_FLAG_BEGINNING_OF_MOVE_SEGMENT,
                                  STEP_EVENT_END_OF_MOTION}) = {}
               /\ (step_generator_state.buffered_step.flags \cap STEP_EVENT_FLAG_DIR_MASK)
                     = (ev.flags \cap STEP_EVENT_FLAG_DIR_MASK)
            THEN MergedInto(buffer_step_event(Cur, ev), ev)
            ELSE FlushedAndReplacedBy(buffer_step_event(Cur, ev), ev)

\* the producer has merged the simultaneous steps of X and E, which carry the
\* same active bits, into the buffer behind an event it flushed to StepEvQ
C11_Witness ==
    /\ HoldsBufferedStep
    /\ {STEP_FLAG(X_AXIS), STEP_FLAG(E_AXIS), ACTIVE_FLAG(X_AXIS), ACTIVE_FLAG(E_AXIS)}
            \subseteq step_generator_state.buffered_step.flags
    /\ has_step_events_queued(Cur)

\* ------------------------------------------------------------------ C12
\* Scenario S3: moves on the XY diagonal.  X and Y have the same mm_per_step
\* and the same axes_r, so both generators cross every half step at the same
\* absolute time.  The planner delivers the diagonal trapezoid (2 steps on +X
\* and +Y), the diagonal cruise block (1 step on -X and -Y) or the short
\* triangle on -X.
DiagonalCatalogue ==
    { MoveBlock(StepsOn({X_AXIS, Y_AXIS}, 2), {}, 4, 2, 0, 2, 0),
      MoveBlock(StepsOn({X_AXIS, Y_AXIS}, 1), {X_AXIS, Y_AXIS}, 2, 2, 1, 1, 1),
      MoveBlock(StepsOn({X_AXIS}, 1), {X_AXIS}, 2, 2, 0, 2, 0) }

PlannerBufferS3 ==
    /\ ~stop_pending
    /\ h_blocks_fed < MaxBlocks
    /\ Len(planner.block_buffer) < BLOCK_BUFFER_SIZE - 1
    /\ \E block \in DiagonalCatalogue : Commit(planner_buffer_block(Cur, block))
    /\ h_blocks_fed' = h_blocks_fed + 1
    /\ UNCHANGED <<h_stops, h_flushed, h_inert, h_isr>>

NextS3 == PlannerBufferS3 \/ MoveIsr \/ StepIsr

SpecS3 == Init /\ [][NextS3]_vars

\* ev is followed at the same absolute time (time_ticks = 0) by nxt, one of
\* them stepping X only and the other Y only, with equal direction bits
SplitDiagonalStep(ev, nxt) ==
    /\ nxt.time_ticks = 0
    /\ (ev.flags \cup nxt.flags) \cap STEP_EVENT_FLAG_AXIS_MASK
            = {STEP_FLAG(X_AXIS), STEP_FLAG(Y_AXIS)}
    /\ (ev.flags \cap nxt.flags) \cap STEP_EVENT_FLAG_AXIS_MASK = {}
    /\ ev.flags \cap STEP_EVENT_FLAG_AXIS_MASK # {}
    /\ nxt.flags \cap STEP_EVENT_FLAG_AXIS_MASK # {}
    /\ ev.flags \cap STEP_EVENT_FLAG_DIR_MASK = nxt.flags \cap STEP_EVENT_FLAG_DIR_MASK

\* C12 (coalescing law): steps that the X and the Y generator emit at the
\* same absolute time with the same direction bits reach StepEvQ as one event
\* carrying both step bits: no event of StepEvQ that steps X only (Y only) is
\* followed at time_ticks = 0 by an event that steps Y only (X only), in the
\* queue or in the buffered step behind it.
C12_CoalescingLaw ==
    /\ \A i \in QueuedStepEvents :
            step_event_queue_next_index(i) \in QueuedStepEvents
                => ~SplitDiagonalStep(step_event_queue.data[i],
                                      step_event_queue.data[step_event_queue_next_index(i)])
    /\ \A i \in QueuedStepEvents :
            step_event_queue_next_index(i) = step_event_queue.head
                => ~SplitDiagonalStep(step_event_queue.data[i],
                                      step_generator_state.buffered_step)

\* ------------------------------------------------------------------ C13
\* the move blocks append_move_segments_to_queue is applied to: those of the
\* catalogue, a block that only accelerates and a block that only decelerates
PhaseBlocks ==
    MoveBlocks \cup { MoveBlock(StepsOn({X_AXIS}, 1), {}, 1, 2, 0, 2, 2),
                      MoveBlock(StepsOn({Y_AXIS}, 1), {Y_AXIS}, 1, 2, 2, 2, 0) }

\* the segments a call pushed, in queue order: the slots from the head before
\* the call to the head after it
PushedSegments(before, after) ==
    [k \in 1..(move_segment_queue_size(after) - move_segment_queue_size(before)) |->
        after.move_segment_queue.data[(before.move_segment_queue.head + k - 1)
                                            % MOVE_SEGMENT_QUEUE_SIZE]]

PhaseRank(move) ==
    IF MOVE_FLAG_ACCELERATION_PHASE \in move.flags THEN 1
    ELSE IF MOVE_FLAG_CRUISE_PHASE \in move.flags THEN 2
    ELSE IF MOVE_FLAG_DECELERATION_PHASE \in move.flags THEN 3
    ELSE 0

PhaseFlags ==
    {MOVE_FLAG_ACCELERATION_PHASE, MOVE_FLAG_CRUISE_PHASE, MOVE_FLAG_DECELERATION_PHASE}

\* C13: for every block for which append_move_segments_to_queue returns true,
\* the segments it pushed are, in queue order, a subsequence of (acceleration,
\* cruise, deceleration); each carries the direction bits and the active-axis
\* bits of the block (and no other); exactly one carries
\* FIRST_MOVE_SEGMENT_OF_BLOCK, the first pushed, and exactly one carries
\* LAST_MOVE_SEGMENT_OF_BLOCK, the last pushed.
C13_SegmentsOfBlock ==
    \A block \in PhaseBlocks :
        LET r == append_move_segments_to_queue(Cur, block)
            pushed == PushedSegments(Cur, r.s)
        IN  r.ok =>
            /\ Len(pushed) >= 1
            /\ \A k \in DOMAIN pushed :
                /\ Cardinality(pushed[k].flags \cap PhaseFlags) = 1
                /\ k > 1 => PhaseRank(pushed[k - 1]) < PhaseRank(pushed[k])
                /\ pushed[k].flags \cap STEP_EVENT_FLAG_DIR_MASK = get_dir_flags_from_block(block)
                /\ pushed[k].flags \cap STEP_EVENT_FLAG_AXIS_ACTIVE_MASK
                        = get_active_axis_flags_from_block(block)
                /\ (MOVE_FLAG_FIRST_MOVE_SEGMENT_OF_BLOCK \in pushed[k].flags) <=> (k = 1)
                /\ (MOVE_FLAG_LAST_MOVE_SEGMENT_OF_BLOCK \in pushed[k].flags) <=> (k = Len(pushed))

\* the newest three segments of MoveSegQ are the acceleration, cruise and
\* deceleration segment of one block, and a block of every shape (three
\* phases, two, one) would be accepted in this state
C13_Witness ==
    /\ move_segment_queue_size(Cur) >= 3
    /\ LET head == move_segment_queue.head
           seg(k) == move_segment_queue.data[(head - k) % MOVE_SEGMENT_QUEUE_SIZE]
       IN  /\ {MOVE_FLAG_ACCELERATION_PHASE, MOVE_FLAG_FIRST_MOVE_SEGMENT_OF_BLOCK} \subseteq seg(3).flags
           /\ MOVE_FLAG_CRUISE_PHASE \in seg(2).flags
           /\ {MOVE_FLAG_DECELERATION_PHASE, MOVE_FLAG_LAST_MOVE_SEGMENT_OF_BLOCK} \subseteq seg(1).flags
    /\ \A block \in PhaseBlocks : append_move_segments_to_queue(Cur, block).ok
    /\ {Len(PushedSegments(Cur, append_move_segments_to_queue(Cur, block).s)) : block \in PhaseBlocks}
            = {1, 2, 3}

\* ------------------------------------------------------------------ C14
\* move blocks of every profile of bounded size: a move block has at least
\* one step, hence a positive length
PhaseFamily ==
    { MoveBlock(StepsOn({X_AXIS}, 1), {}, mm, accel, v0, vn, v1) :
        mm \in 1..4, accel \in 1..2, v0 \in 0..2, vn \in 1..2, v1 \in 0..2 }

PhasesOf(move_flags) == move_flags \cap PhaseFlags

QueuedMoveSegmentSeq ==
    [k \in 1..move_segment_queue_size(Cur) |->
        move_segment_queue.data[(move_segment_queue.tail + k - 1) % MOVE_SEGMENT_QUEUE_SIZE]]

\* the segment appended last (its slot keeps it after it was retired)
NewestMoveSegment ==
    move_segment_queue.data[(move_segment_queue.head - 1) % MOVE_SEGMENT_QUEUE_SIZE]

is_block_discarding_move(move) ==
    move.flags = {MOVE_FLAG_FIRST_MOVE_SEGMENT_OF_BLOCK, MOVE_FLAG_LAST_MOVE_SEGMENT_OF_BLOCK}

IntakeStateOf(s, elapsed) ==
    LET w == is_waiting_before_delivering(s, elapsed) IN
    IF w.waiting THEN [s |-> w.s, enters |-> FALSE]
    ELSE IF w.s.total_print_time >= MAX_PRINT_TIME
    THEN IF has_blocks_queued(w.s) THEN [s |-> w.s, enters |-> FALSE]
         ELSE [s |-> reset_from_halt(w.s), enters |-> TRUE]
    ELSE [s |-> w.s, enters |-> TRUE]

IntakeState(elapsed) == IntakeStateOf(Cur, elapsed)

\* the states in which one call of move_isr calls process_queue_of_blocks
\* (lines 857 and 872)
RECURSIVE IntakeStatesFrom(_, _, _)
IntakeStatesFrom(s, i, elapsed) ==
    IF i > movesplanned(s) THEN {}
    ELSE {s} \cup
         (IF ~has_unprocessed_move_segments_queued(process_queue_of_blocks(s, elapsed)) THEN {}
          ELSE LET r == process_one_move_segment_from_queue(process_queue_of_blocks(s, elapsed)) IN
               IF r.status # STEP_GENERATOR_STATUS_NO_STEP_EVENT_PRODUCED THEN {}
               ELSE IntakeStatesFrom(r.s, i + 1, elapsed))

MoveIsrIntakeStates(elapsed) ==
    IF stop_pending THEN {}
    ELSE LET r == process_one_move_segment_from_queue(Cur) IN
         IF r.status = STEP_GENERATOR_STATUS_OK THEN {}
         ELSE IF r.status = STEP_GENERATOR_STATUS_FULL_STEP_EVENT_QUEUE THEN {r.s}
         ELSE IntakeStatesFrom(r.s, 0, elapsed)

\* the number of sync blocks at the front of a sequence of blocks
RECURSIVE LeadingSyncBlocks(_)
LeadingSyncBlocks(blocks) ==
    IF blocks = <<>> \/ is_move(Head(blocks)) THEN 0
    ELSE 1 + LeadingSyncBlocks(Tail(blocks))

\* C16: a sync block that reaches the block intake while motion has not
\* started (total_print_time = 0) sets the stepper position directly and is
\* discarded from both planner cursors; no move segment and no step event is
\* enqueued and total_print_time is still 0.  At that moment no move segment
\* is queued: assert(!has_blocks_queued()) holds in every reachable state.
C16_DirectSync ==
    /\ ~h_assert_failed
    /\ \A elapsed \in BOOLEAN :
        LET pre == IntakeState(elapsed).s IN
        (/\ IntakeState(elapsed).enters
         /\ pre.total_print_time = 0
         /\ get_current_unprocessed_block(pre) # nullptr
         /\ ~is_move(pre.planner.block_buffer[get_current_unprocessed_block(pre)]))
        => LET f == fetch_next_block(pre)
               n == LeadingSyncBlocks(pre.planner.block_buffer)
           IN  /\ ~has_blocks_queued(pre)
               /\ pre.planner.processed = 0
               /\ n >= 1
               /\ f.s.stepper.count_position = pre.planner.block_buffer[n].position
               /\ f.s.planner.block_buffer
                    = SubSeq(pre.planner.block_buffer, n + 1, Len(pre.planner.block_buffer))
               /\ f.s.planner.processed = 0
               /\ f.s.move_segment_queue = pre.move_segment_queue
               /\ f.s.step_event_queue = pre.step_event_queue
               /\ f.s.total_print_time = 0
               /\ ~f.ret
               /\ f.current_block = nullptr =>
                    LET q == process_queue_of_blocks(Cur, elapsed) IN
                    /\ q.move_segment_queue = move_segment_queue
                    /\ q.step_event_queue = step_event_queue
                    /\ q.total_print_time = 0
                    /\ q.planner.block_buffer = <<>>

\* a sync block that arrived after a motion session had drained was applied
\* directly: the stepper stands at its position, nothing is queued
C16_Witness ==
    /\ Drained
    /\ Len(h_appended) = 1
    /\ h_direct = {2}
    /\ h_retired = <<1, 2>>
    /\ stepper.count_position = SyncPosition

\* ------------------------------------------------------------------ C17
\* what one call of process_queue_of_blocks pushes onto MoveSegQ
PushedByIntakeOf(s, elapsed) == PushedSegments(s, process_queue_of_blocks(s, elapsed))

PushedByIntake(elapsed) == PushedByIntakeOf(Cur, elapsed)

\* C17: in every motion session the first segment appended after halt is a
\* beginning empty move: print_time 0, duration max_lookback_time + 1 ms, zero
\* axes_r, no active axis.  It is appended exactly once per session (also when
\* the block that follows it is refused): a segment of MoveSegQ is a beginning
\* empty move exactly when its print_time is 0, an intake that starts from
\* total_print_time = 0 pushes it first and only once, and an intake inside a
\* session pushes none.  Whenever the merger state is uninitialised and an
\* unprocessed segment exists, that segment is a beginning empty move (the
\* asserts of process_one_move_segment_from_queue and
\* step_generator_state_init never fail).
C17_BeginningEmptyMove ==
    /\ ~h_assert_failed
    /\ \A k \in DOMAIN QueuedMoveSegmentSeq :
        LET move == QueuedMoveSegmentSeq[k] IN
        /\ is_beginning_empty_move(move) <=> move.print_time = 0
        /\ is_beginning_empty_move(move) =>
            /\ move.move_t = max_lookback_time + BEGINNING_EMPTY_MOVE_MARGIN
            /\ move.axes_r = ZeroVec
            /\ move.start_v = 0 /\ move.half_accel = 0
            /\ move.flags \cap STEP_EVENT_FLAG_AXIS_ACTIVE_MASK = {}
            /\ k > 1 => is_ending_empty_move(QueuedMoveSegmentSeq[k - 1])
    /\ \A elapsed \in BOOLEAN :
        LET pushed == PushedByIntake(elapsed) IN
        /\ (IntakeState(elapsed).s.total_print_time = 0 /\ pushed # <<>>)
                => is_beginning_empty_move(pushed[1])
        /\ \A k \in DOMAIN pushed :
                is_beginning_empty_move(pushed[k])
                    => (k = 1 /\ IntakeState(elapsed).s.total_print_time = 0)
    /\ (~step_generator_state.initialized /\ has_unprocessed_move_segments_queued(Cur))
            => is_beginning_empty_move(
                    move_segment_queue.data[get_current_unprocessed_move_segment(Cur)])
    /\ \A elapsed \in BOOLEAN : \A s \in MoveIsrIntakeStates(elapsed) :
        LET q == process_queue_of_blocks(s, elapsed)
            pushed == PushedByIntakeOf(s, elapsed)
        IN  /\ (~q.step_generator_state.initialized /\ has_unprocessed_move_segments_queued(q))
                => is_beginning_empty_move(
                        q.move_segment_queue.data[get_current_unprocessed_move_segment(q)])
            /\ (IntakeStateOf(s, elapsed).s.total_print_time = 0 /\ pushed # <<>>)
                => is_beginning_empty_move(pushed[1])
            /\ \A k \in DOMAIN pushed :
                    is_beginning_empty_move(pushed[k])
                        => (k = 1 /\ IntakeStateOf(s, elapsed).s.total_print_time = 0)

\* the second motion session has begun: its beginning empty move is the
\* oldest segment of MoveSegQ, the segments of the block that opened the
\* session follow it, and the generators were initialised from it
C17_Witness ==
    /\ Len(h_appended) = 2
    /\ Len(h_retired) = 1
    /\ step_generator_state.initialized
    /\ move_segment_queue_size(Cur) >= 2
    /\ is_beginning_empty_move(QueuedMoveSegmentSeq[1])
    /\ ~is_beginning_empty_move(QueuedMoveSegmentSeq[2])
    /\ NewestMoveSegment.print_time > 0

\* ------------------------------------------------------------------ C18
\* the ending empty moves among what process_queue_of_blocks pushes in state s
EndingPushedByIntake(s, elapsed) ==
    {k \in DOMAIN PushedByIntakeOf(s, elapsed) :
        is_ending_empty_move(PushedByIntakeOf(s, elapsed)[k])}

\* the ending empty move closes the session: it is the newest segment and
\* total_print_time has passed MAX_PRINT_TIME
EndingMoveIsLast ==
    /\ \A k \in DOMAIN QueuedMoveSegmentSeq :
            is_ending_empty_move(QueuedMoveSegmentSeq[k])
                => (k = Len(QueuedMoveSegmentSeq) /\ total_print_time >= MAX_PRINT_TIME)
    /\ total_print_time >= MAX_PRINT_TIME =>
            /\ is_ending_empty_move(NewestMoveSegment)
            /\ NewestMoveSegment.print_time # 0
            /\ NewestMoveSegment.print_time < MAX_PRINT_TIME

\* an intake, in whatever state the Move-ISR calls it, pushes an ending empty
\* move only when the fetch loop found no unprocessed block, motion had
\* started and every generator had reported the end of the queue, and it then
\* pushes nothing else; an intake that finds the ending empty move queued
\* pushes nothing and takes no block
EndingMoveOnlyWhenDry ==
    \A elapsed \in BOOLEAN : \A s \in {Cur} \cup MoveIsrIntakeStates(elapsed) :
        /\ EndingPushedByIntake(s, elapsed) # {} =>
            LET f == fetch_next_block(IntakeStateOf(s, elapsed).s) IN
            /\ IntakeStateOf(s, elapsed).enters
            /\ f.current_block = nullptr
            /\ get_current_unprocessed_block(f.s) = nullptr
            /\ f.s.total_print_time # 0
            /\ f.s.total_print_time < MAX_PRINT_TIME
            /\ has_all_generators_reached_end_of_move_queue(f.s)
            /\ EndingPushedByIntake(s, elapsed) = {Len(PushedByIntakeOf(s, elapsed))}
        /\ (s.total_print_time >= MAX_PRINT_TIME /\ has_blocks_queued(s)) =>
            /\ PushedByIntakeOf(s, elapsed) = <<>>
            /\ process_queue_of_blocks(s, elapsed).h_taken = s.h_taken
            /\ process_queue_of_blocks(s, elapsed).total_print_time = s.total_print_time

\* while the ending empty move is queued (reset_from_halt waits for MoveSegQ
\* to be empty) no step appends a segment or takes a planner block in
NothingAfterEndingMove ==
    (total_print_time >= MAX_PRINT_TIME /\ has_blocks_queued(Cur) /\ ~stop_pending)
        => /\ move_segment_queue'.head = move_segment_queue.head
           /\ total_print_time' = total_print_time
           /\ h_taken' = h_taken
           /\ h_appended' = h_appended

\* C18: the ending empty move is appended only when the planner has no
\* unprocessed block, total_print_time # 0 and every generator reports the
\* end of the queue.  Once it is appended (total_print_time >= MAX_PRINT_TIME)
\* no further segment is appended and no planner block is taken in until
\* reset_from_halt has run.  Each session has at most one ending empty move,
\* and it is the last segment of the session.
C18_EndingEmptyMove ==
    /\ [](EndingMoveIsLast /\ EndingMoveOnlyWhenDry)
    /\ [][NothingAfterEndingMove]_vars

\* the ending empty move is queued and a block that arrived after it waits
\* at the planner's unprocessed cursor
C18_Witness ==
    /\ total_print_time >= MAX_PRINT_TIME
    /\ has_blocks_queued(Cur)
    /\ is_ending_empty_move(NewestMoveSegment)
    /\ get_current_unprocessed_block(Cur) # nullptr
    /\ h_taken = <<1>>

\* ------------------------------------------------------------------ C19
has_beginning_of_move_segment(ev) == STEP_EVENT_FLAG_BEGINNING_OF_MOVE_SEGMENT \in ev.flags

\* the markers on their way to the Step-ISR: in StepEvQ or in buffered_step
MarkersInFlight ==
    Cardinality({i \in QueuedStepEvents : has_beginning_of_move_segment(step_event_queue.data[i])})
        + (IF has_beginning_of_move_segment(step_generator_state.buffered_step) THEN 1 ELSE 0)

\* the segments discarded from the unprocessed side and not retired yet
PassedMoveSegments == QueuedMoveSegments \ UnprocessedMoveSegments

\* C19: BeginningOfMoveSegment markers are delivered in MoveSegQ order and
\* exactly accounted.  The markers handed to the Step-ISR plus
\* left_insert_start_of_move_segment equal the number of segments discarded
\* from the unprocessed side, so, the Step-ISR retiring one segment per
\* marker, the markers still in flight plus those still owed equal the number
\* of segments between the Step-ISR cursor and unprocessed_tail;
\* left_insert_start_of_move_segment is never negative; the segment a marker
\* retires exists (the Step-ISR cursor never passes unprocessed_tail, a marker
\* never finds MoveSegQ empty) and has been released by every generator
\* (reference_cnt = 0).
C19_MarkerAccounting ==
    /\ MarkersInFlight + step_generator_state.left_insert_start_of_move_segment
            = Cardinality(PassedMoveSegments)
    /\ step_generator_state.left_insert_start_of_move_segment >= 0
    /\ (move_segment_queue.unprocessed_tail - move_segment_queue.tail) % MOVE_SEGMENT_QUEUE_SIZE
            <= (move_segment_queue.head - move_segment_queue.tail) % MOVE_SEGMENT_QUEUE_SIZE
    /\ ~h_null_deref
    /\ \A i \in PassedMoveSegments :
            /\ move_segment_queue.data[i].reference_cnt = 0
            /\ GeneratorsOn(i) = {}

\* ------------------------------------------------------------------ C20
\* C20: after the generators were initialised, unprocessed_tail designates
\* the oldest segment a generator still needs: every segment older than
\* unprocessed_tail has reference_cnt 0, no generator's current_move is older
\* than unprocessed_tail (it is an unprocessed segment), and the segment the
\* last generator left was discarded from the unprocessed side in that same
\* step, so that the segment at unprocessed_tail is always one a generator
\* rests on.
C20_UnprocessedTail ==
    step_generator_state.initialized =>
        /\ \A i \in PassedMoveSegments : move_segment_queue.data[i].reference_cnt = 0
        /\ \A a \in AXES : classic_step_generator[a].current_move \in UnprocessedMoveSegments
        /\ has_unprocessed_move_segments_queued(Cur) =>
                /\ move_segment_queue.data[move_segment_queue.unprocessed_tail].reference_cnt > 0
                /\ GeneratorsOn(move_segment_queue.unprocessed_tail) # {}

\* ------------------------------------------------------------------ C21
\* the flush times a generator is asked with: every horizon up to the end of
\* the queued timeline
MaxFlushTime == 6

FlushTimes == 0..Min(total_print_time - max_lookback_time, MaxFlushTime)

NoStepEvent(ev) == ev.time = DBL_MAX

GeneratorsReady ==
    /\ step_generator_state.initialized
    /\ \A a \in AXES : classic_step_generator[a].current_move \in UnprocessedMoveSegments

\* the flush horizon of every call of process_one_move_segment_from_queue
\* bounds the events the merger holds and the time of the last emitted event
WithinFlushHorizon ==
    step_generator_state.initialized =>
        /\ \A a \in AXES :
            \/ NoStepEvent(step_generator_state.step_events[a])
            \/ step_generator_state.step_events[a].time <= total_print_time - max_lookback_time
        /\ step_generator_state.previous_step_time <= total_print_time - max_lookback_time

\* C21 (flush horizon): no generator returns a step event whose absolute
\* time exceeds the flush_time of the call.  When the next half-step crossing
\* lies beyond flush_time the generator returns the no-event sentinel, sets
\* reached_end_of_move_queue and leaves current_distance[axis] unchanged, so
\* a later call with a later horizon returns that very crossing: it is not
\* skipped and not emitted twice.  A returned event moves
\* current_distance[axis] by one step.
C21_FlushHorizon ==
    /\ WithinFlushHorizon
    /\ GeneratorsReady =>
        \A axis \in AXES : \A flush_time \in FlushTimes :
            LET r == step_generator_next_step_event(Cur, axis, flush_time)
                later == step_generator_next_step_event(r.s, axis, total_print_time - max_lookback_time)
                direct == step_generator_next_step_event(Cur, axis, total_print_time - max_lookback_time)
                step == IF r.s.classic_step_generator[axis].step_dir THEN 1 ELSE 0 - 1
            IN  /\ ~NoStepEvent(r.ev) =>
                    /\ r.ev.time <= flush_time
                    /\ STEP_FLAG(axis) \in r.ev.flags
                    /\ r.s.step_generator_state.current_distance[axis]
                            = step_generator_state.current_distance[axis] + step
                    /\ r.ev = direct.ev
                /\ NoStepEvent(r.ev) =>
                    /\ r.s.classic_step_generator[axis].reached_end_of_move_queue
                    /\ r.s.step_generator_state.current_distance
                            = step_generator_state.current_distance
                    /\ later.ev = direct.ev
                    /\ later.s.step_generator_state.current_distance
                            = direct.s.step_generator_state.current_distance
                    /\ ~NoStepEvent(direct.ev) => direct.ev.time > flush_time

\* a generator asked with a horizon short of its next half-step crossing
\* holds the crossing back; asked again with the full horizon it returns it
C21_Witness ==
    /\ GeneratorsReady
    /\ \E axis \in AXES : \E flush_time \in FlushTimes :
        LET r == step_generator_next_step_event(Cur, axis, flush_time)
            later == step_generator_next_step_event(r.s, axis, total_print_time - max_lookback_time)
        IN  /\ NoStepEvent(r.ev)
            /\ r.s.step_generator_state.current_distance = step_generator_state.current_distance
            /\ ~NoStepEvent(later.ev)
            /\ later.ev.time > flush_time
            /\ later.ev.time > step_generator_state.previous_step_time
            /\ step_generator_state.previous_step_time > 0

\* ------------------------------------------------------------------ C22
\* the sum of the signed steps of the move blocks among blocks[k..] whose id
\* is in ids
RECURSIVE SignedStepsOf(_, _, _)
SignedStepsOf(blocks, ids, k) ==
    IF k > Len(blocks) THEN ZeroVec
    ELSE LET rest == SignedStepsOf(blocks, ids, k + 1) IN
         IF is_move(blocks[k]) /\ blocks[k].h_id \in ids
         THEN [i \in AXES |-> get_oriented_steps_from_block(blocks[k])[i] + rest[i]]
         ELSE rest

\* the ids of the blocks one call of process_queue_of_blocks in state s accepts
AcceptedByIntake(s, elapsed) ==
    LET after == process_queue_of_blocks(s, elapsed).h_appended IN
    {after[k] : k \in (Len(s.h_appended) + 1)..Len(after)}

\* C22: total_start_pos_steps is the sum of the signed step counts of the
\* blocks append_move_segments_to_queue accepted since the last halt: every
\* intake adds exactly the signed steps of the blocks it accepts, starting
\* from zero when it resets from halt first, and nothing else changes it;
\* total_start_pos[axis] is total_start_pos_steps[axis] * mm_per_step[axis];
\* both are zero after reset_from_halt (total_print_time = 0).
C22_StartPosition ==
    /\ total_start_pos = [i \in AXES |-> total_start_pos_steps[i] * mm_per_step[i]]
    /\ total_print_time = 0 => (total_start_pos_steps = ZeroVec /\ total_start_pos = ZeroVec)
    /\ reset_from_halt(Cur).total_start_pos_steps = ZeroVec
    /\ reset_from_halt(Cur).total_start_pos = ZeroVec
    /\ \A elapsed \in BOOLEAN : \A s \in {Cur} \cup MoveIsrIntakeStates(elapsed) :
        LET q == process_queue_of_blocks(s, elapsed)
            base == IntakeStateOf(s, elapsed).s.total_start_pos_steps
            added == SignedStepsOf(s.planner.block_buffer, AcceptedByIntake(s, elapsed), 1)
        IN  /\ q.total_start_pos_steps = [i \in AXES |-> base[i] + added[i]]
            /\ q.total_start_pos = [i \in AXES |-> q.total_start_pos_steps[i] * mm_per_step[i]]
            /\ process_one_move_segment_from_queue(s).s.total_start_pos_steps = s.total_start_pos_steps
    /\ step_isr(Cur, 1).total_start_pos_steps = total_start_pos_steps

\* in the second session of a run the steps of the first block are no longer
\* part of the sum
C22_Witness ==
    /\ Len(h_appended) = 2
    /\ Len(h_retired) >= 1
    /\ OnlyMoveBlocks
    /\ total_print_time # 0
    /\ total_start_pos_steps # ZeroVec
    /\ total_start_pos_steps # h_expected
    /\ has_unprocessed_move_segments_queued(Cur)

\* ------------------------------------------------------------------ C23
\* the events of StepEvQ, oldest first
QueuedStepEventSeq ==
    [k \in 1..((step_event_queue.head - step_event_queue.tail) % STEP_EVENT_QUEUE_SIZE) |->
        step_event_queue.data[(step_event_queue.tail + k - 1) % STEP_EVENT_QUEUE_SIZE]]

is_end_of_motion(ev) == STEP_EVENT_END_OF_MOTION \in ev.flags

\* a move-discarding marker event: BeginningOfMoveSegment and no step
is_move_discarding_step_event(ev) ==
    has_beginning_of_move_segment(ev) /\ ~HasStep(ev)

\* the merge test of lines 919-923 refuses to add ev to prev
NotMergeable(prev, ev) ==
    \/ (prev.flags \cap ev.flags)
            \cap (STEP_EVENT_FLAG_AXIS_MASK \cup STEP_EVENT_FLAG_AXIS_OTHER_MASK) # {}
    \/ (prev.flags \cap STEP_EVENT_FLAG_DIR_MASK) # (ev.flags \cap STEP_EVENT_FLAG_DIR_MASK)

\* C23 as stated: after the first event of a session every event written to
\* StepEvQ, step event or move-discarding marker event, has time_ticks > 0.
C23_StrictlyMonotonicAsClaimed ==
    \A k \in 2..Len(QueuedStepEventSeq) :
        ~is_end_of_motion(QueuedStepEventSeq[k - 1])
            => QueuedStepEventSeq[k].time_ticks > 0

\* C23, amended: events inside StepEvQ are monotonic in absolute time, not
\* strictly.  Every event has time_ticks >= 0; after the first event of a
\* session an event has time_ticks = 0 only if it is a move-discarding marker
\* event or a step event that the merge test refused to add to the event
\* before it (a step or marker bit in common, or different direction bits).
C23_MonotonicWithZeroDelays ==
    \A k \in 2..Len(QueuedStepEventSeq) :
        LET prev == QueuedStepEventSeq[k - 1]
            ev == QueuedStepEventSeq[k]
        IN  /\ ev.time_ticks >= 0
            /\ (ev.time_ticks = 0 /\ ~is_end_of_motion(prev))
                    => \/ is_move_discarding_step_event(ev)
                       \/ HasStep(ev) /\ NotMergeable(prev, ev)

\* StepEvQ holds a step event with zero delay behind another step event,
\* and a step event with a positive delay
C23_Witness ==
    /\ \E k \in 2..Len(QueuedStepEventSeq) :
            /\ QueuedStepEventSeq[k].time_ticks = 0
            /\ HasStep(QueuedStepEventSeq[k])
            /\ HasStep(QueuedStepEventSeq[k - 1])
    /\ \E k \in 2..Len(QueuedStepEventSeq) :
            /\ QueuedStepEventSeq[k].time_ticks > 0
            /\ HasStep(QueuedStepEventSeq[k])

\* ------------------------------------------------------------------ C24
\* the states in which one call of process_one_move_segment_from_queue calls
\* generate_next_step_event (the for loop of lines 903-954)
RECURSIVE MergerStatesFrom(_, _, _)
MergerStatesFrom(s, produced_step_events_cnt, flush_time) ==
    IF produced_step_events_cnt >= MAX_STEP_EVENTS_PRODUCED_PER_ONE_CALL THEN {}
    ELSE IF s.step_generator_state.buffered_step.flags # {} /\ get_next_free_step_event(s) = nullptr
    THEN {}
    ELSE {s} \cup
         (IF generate_next_step_event(s, flush_time).done THEN {}
          ELSE MergerStatesFrom(
                   buffer_step_event(generate_next_step_event(s, flush_time).s,
                                     generate_next_step_event(s, flush_time).step_event),
                   produced_step_events_cnt + 1, flush_time))

MergerStates ==
    IF GeneratorsReady /\ ~stop_pending
    THEN MergerStatesFrom(
             [Cur EXCEPT !.step_generator_state = step_generator_state_restart(@)],
             0, total_print_time - max_lookback_time)
    ELSE {}

\* the absolute time of the event generate_next_step_event emits in state s
NearestStepTime(s) ==
    s.step_generator_state.step_events[s.step_generator_state.step_event_index[1]].time

EmitsStepEvent(s) == NearestStepTime(s) # 0 /\ NearestStepTime(s) # DBL_MAX

EmittedStepEvent(s) ==
    generate_next_step_event(s, total_print_time - max_lookback_time).step_event

\* step_time_relative of the event, clamped at 0
EmittedRelativeTime(s) ==
    Max(NearestStepTime(s) - s.step_generator_state.previous_step_time, 0)

C25_TickErrorBounded ==
    h_first_step_time > 0 =>
        /\ (h_last_step_time - h_first_step_time) * TICKS_NUM
                - h_time_ticks * TICKS_DEN < TICKS_DEN
        /\ h_time_ticks * TICKS_DEN
                - (h_last_step_time - h_first_step_time) * TICKS_NUM < TICKS_DEN

\* ------------------------------------------------------------------ C26
\* the block of scenario S2 with the time unit read as 0.1 s: 100 mm on +X
\* (50 steps of 2 mm), start_v = 0, nominal = 200 mm/s = 20 mm per unit,
\* end_v = 0, a = 1000 mm/s^2 = 10 mm per unit squared
S2Block == MoveBlock(StepsOn({X_AXIS}, 50), {}, 100, 10, 0, 20, 0)

S2Appended == append_move_segments_to_queue(Cur, S2Block)

S2Pushed == PushedSegments(Cur, S2Appended.s)

\* what both readings of S2 share: three segments, 20 + 60 + 20 mm, a cruise
\* segment of 0.3 s
S2Decomposition ==
    /\ calc_phases(S2Block).accel_dist = 20
    /\ calc_phases(S2Block).decel_dist = 20
    /\ calc_phases(S2Block).cruise_dist = 60
    /\ Len(S2Pushed) = 3
    /\ PhaseRank(S2Pushed[1]) = 1 /\ PhaseRank(S2Pushed[2]) = 2 /\ PhaseRank(S2Pushed[3]) = 3
    /\ S2Pushed[2].move_t = 3

\* C26 as stated: the S2 block gives exactly three segments with accel_dist =
\* decel_dist = 20 mm and cruise_dist = 60 mm, the cruise segment lasts 0.3 s,
\* and total_print_time advances by 0.5 s in total.
C26_TrapezoidAsClaimed ==
    S2Appended.ok =>
        /\ S2Decomposition
        /\ S2Appended.s.total_print_time = total_print_time + 5

\* C26, amended: the S2 block gives exactly three segments with accel_dist =
\* decel_dist = 20 mm and cruise_dist = 60 mm; the acceleration and the
\* deceleration segment last 0.2 s each and the cruise segment 0.3 s, each
\* segment starts where the one before it ends, and total_print_time advances
\* by 0.7 s in total.
C26_Trapezoid ==
    S2Appended.ok =>
        /\ S2Decomposition
        /\ S2Pushed[1].move_t = 2 /\ S2Pushed[3].move_t = 2
        /\ S2Pushed[1].print_time = total_print_time
        /\ S2Pushed[2].print_time = total_print_time + 2
        /\ S2Pushed[3].print_time = total_print_time + 5
        /\ S2Appended.s.total_print_time = total_print_time + 7

\* a session is running, MoveSegQ holds segments, and the S2 block is accepted
C26_Witness ==
    /\ total_print_time > 0
    /\ move_segment_queue_size(Cur) >= 2
    /\ S2Appended.ok
    /\ Len(S2Pushed) = 3

\* ------------------------------------------------------------------ C27
\* Blocks shorter than the distance tolerance lie below the grid of the
\* catalogue, so the phase computation of lines 192-209 is repeated here on a
\* finer grid on which EPSILON_DISTANCE is one unit.  To keep the arithmetic
\* exact every distance is carried multiplied by 4 * accel and every velocity
\* squared and doubled.
EPSILON_DISTANCE == 1

\* 4 * accel * calc_distance_required_to_reach_cruise_velocity_clamped(...)
fine_distance_required_to_reach_cruise_velocity_clamped(start_v, cruise_v, accel) ==
    IF 2 * (SQR(cruise_v) - SQR(start_v)) < 4 * accel * EPSILON_DISTANCE THEN 0
    ELSE 2 * (SQR(cruise_v) - SQR(start_v))

\* 4 * accel * calc_distance_in_which_we_start_decelerating_clamped(...)
fine_distance_in_which_we_start_decelerating_clamped(start_v, end_v, accel, dist) ==
    IF 2 * dist * accel + SQR(end_v) - SQR(start_v) <= 4 * accel * EPSILON_DISTANCE THEN 0
    ELSE IF 2 * dist * accel + SQR(end_v) - SQR(start_v) > 4 * accel * (dist - EPSILON_DISTANCE)
    THEN 4 * accel * dist
    ELSE 2 * dist * accel + SQR(end_v) - SQR(start_v)

\* accel_dist, decel_dist, cruise_dist (each times 4 * accel) and twice the
\* square of cruise_v, as lines 198-209 leave them
fine_phases(block) ==
    LET millimeters == block.millimeters
        accel == block.acceleration
        start_v == block.initial_speed
        end_v == block.final_speed
        accel_dist0 == fine_distance_required_to_reach_cruise_velocity_clamped(start_v, block.nominal_speed, accel)
        decel_dist0 == fine_distance_required_to_reach_cruise_velocity_clamped(end_v, block.nominal_speed, accel)
        cruise_dist0 == 4 * accel * millimeters - accel_dist0 - decel_dist0
        accel_dist1 == fine_distance_in_which_we_start_decelerating_clamped(start_v, end_v, accel, millimeters)
    IN  IF cruise_dist0 < 4 * accel * EPSILON_DISTANCE
        THEN [accel_dist |-> accel_dist1,
              decel_dist |-> Max(4 * accel * millimeters - accel_dist1, 0),
              cruise_dist |-> 0,
              cruise_v_sqr2 |-> 2 * SQR(start_v) + accel_dist1]
        ELSE [accel_dist |-> accel_dist0, decel_dist |-> decel_dist0,
              cruise_dist |-> cruise_dist0,
              cruise_v_sqr2 |-> 2 * SQR(block.nominal_speed)]

\* the phases append_move_segments_to_queue pushes a segment for (lines 218,
\* 230, 242), each with whether its duration is positive: accel_t =
\* (cruise_v - start_v) / accel, cruise_t = cruise_dist / cruise_v, decel_t =
\* (cruise_v - end_v) / accel
fine_segments(block) ==
    LET ph == fine_phases(block) IN
    (IF ph.accel_dist # 0
     THEN {[phase |-> MOVE_FLAG_ACCELERATION_PHASE,
            positive |-> ph.cruise_v_sqr2 > 2 * SQR(block.initial_speed)]}
     ELSE {})
    \cup
    (IF ph.cruise_dist # 0
     THEN {[phase |-> MOVE_FLAG_CRUISE_PHASE,
            positive |-> ph.cruise_dist > 0 /\ ph.cruise_v_sqr2 > 0]}
     ELSE {})
    \cup
    (IF ph.decel_dist # 0
     THEN {[phase |-> MOVE_FLAG_DECELERATION_PHASE,
            positive |-> ph.cruise_v_sqr2 > 2 * SQR(block.final_speed)]}
     ELSE {})

\* blocks with millimeters > 0, acceleration > 0 and
\* 0 <= initial_speed, final_speed <= nominal_speed
MaxFine == 3

FineBlocks ==
    { MoveBlock(StepsOn({X_AXIS}, 1), {}, mm, accel, v0, vn, v1) :
        mm \in 1..(MaxFine + 3), accel \in 1..MaxFine, v0 \in 0..MaxFine,
        vn \in 1..MaxFine, v1 \in 0..MaxFine }

\* C27: every motion segment pushed by append_move_segments_to_queue has
\* move_t > 0, for every block with millimeters > 0, acceleration > 0 and
\* 0 <= initial_speed, final_speed <= nominal_speed, the blocks so short that
\* the no-cruise recomputation clamps accel_dist to 0 or to the full distance
\* included.
C27_PositiveDuration ==
    \A block \in FineBlocks :
        (/\ block.initial_speed <= block.nominal_speed
         /\ block.final_speed <= block.nominal_speed
         /\ ~lacks_free_move_segments(Cur, Cardinality(fine_segments(block))))
            => \A segment \in fine_segments(block) : segment.positive

\* ------------------------------------------------------------------ C28
\* values of a miss counter: just cleared, and the last two an 8-bit counter
\* can hold (reached after that many misses without a clear)
MissCounts == {0, UINT8_MOD - 2, UINT8_MOD - 1}

\* the current state with the miss counters at dl and ev
WithMisses(dl, ev) == [Cur EXCEPT !.step_dl_miss = dl, !.step_ev_miss = ev]

\* C28: step_dl_miss and step_ev_miss are saturating 8-bit counters: a call of
\* step_isr (the only code that increments them) never decreases either, and
\* an increment at 255 leaves the counter at 255.
C28_SaturatingCounters ==
    \A dl \in MissCounts : \A ev \in MissCounts : \A latency \in Latencies :
        /\ step_isr(WithMisses(dl, ev), latency).step_dl_miss >= dl
        /\ step_isr(WithMisses(dl, ev), latency).step_ev_miss >= ev
        /\ step_isr(WithMisses(dl, ev), latency).step_dl_miss < UINT8_MOD
        /\ step_isr(WithMisses(dl, ev), latency).step_ev_miss < UINT8_MOD

\* ------------------------------------------------------------------ C29
\* the states in which one call of step_isr calls
\* process_one_step_event_from_queue (line 617), from state s with steps
\* events fetched so far
RECURSIVE StepIsrFetchStatesFrom(_, _)
StepIsrFetchStatesFrom(s, steps) ==
    IF steps = max_steps \/ s.stop_pending THEN {}
    ELSE IF s.left_ticks_to_next_step_event = 0
    THEN {s} \cup
         (IF Min(process_one_step_event_from_queue(s).ticks, max_ticks) > min_delay
                \/ steps + 1 >= max_steps
          THEN {}
          ELSE StepIsrFetchStatesFrom(
                   [process_one_step_event_from_queue(s).s
                        EXCEPT !.left_ticks_to_next_step_event = 0],
                   steps + 1))
    ELSE IF Min(s.left_ticks_to_next_step_event, max_ticks) > min_delay \/ steps >= max_steps
    THEN {}
    ELSE StepIsrFetchStatesFrom([s EXCEPT !.left_ticks_to_next_step_event = 0], steps)

StepIsrFetchStates == StepIsrFetchStatesFrom(Cur, 0)

\* the flags of the event process_one_step_event_from_queue dispatches in s
DispatchedFlags(s) == s.step_event_queue.data[get_current_step_event(s)].flags

\* the event dispatched in s is the last one queued
DispatchesLastQueued(s) ==
    /\ get_current_step_event(s) # nullptr
    /\ get_current_step_event(process_one_step_event_from_queue(s).s) = nullptr

\* C29: when process_one_step_event_from_queue dispatches an event and finds
\* StepEvQ empty behind it while motion is expected (the event is not an
\* EndOfMotion event), step_ev_miss is incremented and the ISR idles for
\* stepper_isr_period_in_ticks; when the event is an EndOfMotion event
\* step_ev_miss is not incremented; when the call finds StepEvQ empty on entry
\* it sets axis_did_move to 0, idles for stepper_isr_period_in_ticks and does
\* not increment step_ev_miss; while events remain step_ev_miss is unchanged.
C29_UnderrunAccounting ==
    \A s \in StepIsrFetchStates :
        /\ (DispatchesLastQueued(s) /\ STEP_EVENT_END_OF_MOTION \notin DispatchedFlags(s))
            => /\ process_one_step_event_from_queue(s).s.step_ev_miss
                        = (s.step_ev_miss + 1) % UINT8_MOD
               /\ process_one_step_event_from_queue(s).ticks = stepper_isr_period_in_ticks
        /\ (DispatchesLastQueued(s) /\ STEP_EVENT_END_OF_MOTION \in DispatchedFlags(s))
            => /\ process_one_step_event_from_queue(s).s.step_ev_miss = s.step_ev_miss
               /\ process_one_step_event_from_queue(s).ticks = stepper_isr_period_in_ticks
        /\ get_current_step_event(s) = nullptr
            => /\ process_one_step_event_from_queue(s).s.stepper.axis_did_move = {}
               /\ process_one_step_event_from_queue(s).s.step_ev_miss = s.step_ev_miss
               /\ process_one_step_event_from_queue(s).ticks = stepper_isr_period_in_ticks
        /\ (get_current_step_event(s) # nullptr /\ ~DispatchesLastQueued(s))
            => process_one_step_event_from_queue(s).s.step_ev_miss = s.step_ev_miss

\* an axis is moving, no miss is counted yet, and the Step-ISR is about to
\* dispatch the last queued event of an unfinished motion and to count a miss
C29_Witness ==
    /\ step_ev_miss = 0
    /\ stepper.axis_did_move # {}
    /\ \E s \in StepIsrFetchStates :
        /\ DispatchesLastQueued(s)
        /\ STEP_EVENT_END_OF_MOTION \notin DispatchedFlags(s)
        /\ process_one_step_event_from_queue(s).s.step_ev_miss = 1

\* ------------------------------------------------------------------ C30
\* the events one call of step_isr dispatches after the first one of the call
\* (lines 616-634), from state s with steps events fetched so far: each with
\* the time_ticks it asked for and the time the ISR busy-waited before
\* fetching it (the argument of delay_us_precise at line 633, which is
\* left_ticks_to_next_step_event after line 625 has reduced it; 0 when the
\* call is skipped)
RECURSIVE FusedDispatchesFrom(_, _)
FusedDispatchesFrom(s, steps) ==
    IF steps = max_steps \/ s.stop_pending \/ s.left_ticks_to_next_step_event # 0 THEN {}
    ELSE LET p == process_one_step_event_from_queue(s)
             ticks_to_next_step_event == Min(p.ticks, max_ticks)
             left_ticks == p.ticks - ticks_to_next_step_event
             fused == [p.s EXCEPT !.left_ticks_to_next_step_event = left_ticks]
         IN  IF ticks_to_next_step_event > min_delay \/ steps + 1 >= max_steps THEN {}
             ELSE (IF left_ticks = 0 /\ get_current_step_event(fused) # nullptr
                   THEN {[time_ticks |-> ticks_to_next_step_event, waited |-> left_ticks]}
                   ELSE {})
                  \cup FusedDispatchesFrom(fused, steps + 1)

FusedDispatches == FusedDispatchesFrom(Cur, 0)

\* C30: inside one step_isr invocation, when the delay to the next step event
\* is non-zero but not greater than min_delay, the ISR busy-waits that delay
\* before it dispatches the event in the same invocation: an event is never
\* dispatched sooner after the one before it than its time_ticks.
C30_FuseSpinWait ==
    \A dispatch \in FusedDispatches : dispatch.waited >= dispatch.time_ticks

\* ------------------------------------------------------- Step-ISR on its own
\* The Step-ISR applied to every short content of StepEvQ the producer can
\* leave behind: up to STEP_EVENT_QUEUE_SIZE - 1 step events on X whose delays
\* are short enough to be fused (min_delay), just too long (min_delay + 1),
\* the longest interval one ISR period covers (max_ticks) or longer
\* (max_ticks + 3), met either when the delay of the first event has elapsed
\* or 3 ticks before (the rest of a delay that was capped at max_ticks).
StepIsrTicks == {min_delay, min_delay + 1, max_ticks, max_ticks + 3}

StepIsrLeftTicks == {0, 3}

QueuedStepOnX(time_ticks) ==
    [time_ticks |-> time_ticks, flags |-> {STEP_FLAG(X_AXIS), ACTIVE_FLAG(X_AXIS)}]

InitStepIsr ==
    /\ move_segment_queue =
            [data |-> [i \in 0..(MOVE_SEGMENT_QUEUE_SIZE - 1) |-> EmptyMove],
             head |-> 0, tail |-> 0, unprocessed_tail |-> 0]
    /\ \E n \in 0..(STEP_EVENT_QUEUE_SIZE - 1) :
       \E ticks \in [0..(STEP_EVENT_QUEUE_SIZE - 2) -> StepIsrTicks] :
            step_event_queue =
                [data |-> [i \in 0..(STEP_EVENT_QUEUE_SIZE - 1) |->
                                IF i < n THEN QueuedStepOnX(ticks[i]) ELSE EmptyStepEvent],
                 head |-> n, tail |-> 0]
    /\ step_generator_state = ClearedStepGeneratorState
    /\ classic_step_generator = [i \in AXES |-> EmptyGenerator(i)]
    /\ total_print_time = 0
    /\ total_start_pos = ZeroVec
    /\ total_start_pos_steps = ZeroVec
    /\ left_ticks_to_next_step_event \in StepIsrLeftTicks
    /\ waiting_before_delivering_start_time = 0
    /\ stop_pending = FALSE
    /\ step_dl_miss = 0
    /\ step_ev_miss = 0
    /\ planner = [block_buffer |-> <<>>, processed |-> 0, delay_before_delivering |-> 0]
    /\ stepper = [count_position |-> ZeroVec,
                  count_direction |-> [i \in AXES |-> 1],
                  last_direction_bits |-> {},
                  axis_did_move |-> {}]
    /\ step_timer_next = 0
    /\ h_taken = <<>>
    /\ h_retired = <<>>
    /\ h_appended = <<>>
    /\ h_direct = {}
    /\ h_refused = {}
    /\ h_kinds = <<>>
    /\ h_fed = 0
    /\ h_expected = ZeroVec
    /\ h_negative_step_time = FALSE
    /\ h_first_step_time = 0
    /\ h_time_ticks = 0
    /\ h_last_step_time = 0
    /\ h_assert_failed = FALSE
    /\ h_null_deref = FALSE
    /\ h_blocks_fed = 0
    /\ h_stops = 0
    /\ h_flushed = FALSE
    /\ h_inert = FALSE
    /\ h_isr = "none"
    /\ producer = ProducerIdle
    /\ spool_join = SpoolJoinConstructed
    /\ h_spool_join_hung = FALSE

NextStepIsr == StepIsr \/ Stop \/ Loop

SpecStepIsr == InitStepIsr /\ [][NextStepIsr]_vars

\* ------------------------------------------------------------------ C36
\* C36: the tick increment accumulated by one step_isr invocation
\* (time_increment) never exceeds max_ticks.
C36_TimeIncrementCapped ==
    step_isr_loop(Cur, 0, 0).time_increment <= max_ticks

\* ------------------------------------------------------------------ C31
\* the compare register and the miss counter after the scheduling part of
\* step_isr (lines 639-649), the timer counter being latency ticks past the
\* previous compare value
ScheduledBy(latency) == step_isr_schedule(step_isr_loop(Cur, 0, 0), latency)

\* the deadline previous compare + time_increment is in the past or closer
\* than min_reserve to the counter
DeadlineTooClose(latency) ==
    step_isr_loop(Cur, 0, 0).time_increment < latency + min_reserve

\* C31: step_isr programs the compare register to previous compare +
\* accumulated ticks unless that deadline is already in the past or closer
\* than min_reserve to the current counter; in that case, and only in that
\* case, it programs counter + min_reserve and increments step_dl_miss exactly
\* once.
C31_SoftTimingMiss ==
    \A latency \in Latencies :
        IF DeadlineTooClose(latency)
        THEN /\ ScheduledBy(latency).step_timer_next = latency + min_reserve
             /\ ScheduledBy(latency).step_dl_miss = (step_dl_miss + 1) % UINT8_MOD
        ELSE /\ ScheduledBy(latency).step_timer_next
                    = step_isr_loop(Cur, 0, 0).time_increment
             /\ ScheduledBy(latency).step_dl_miss = step_dl_miss

\* ------------------------------------------------------------------ C32
step_event_queue_size(s) ==
    (s.step_event_queue.head - s.step_event_queue.tail) % STEP_EVENT_QUEUE_SIZE

\* the number of step events one call of step_isr dequeues
DequeuedByStepIsr(latency) ==
    step_event_queue_size(Cur) - step_event_queue_size(step_isr(Cur, latency))

\* what C32 says whether or not a stop is pending: at most max_steps events
\* are dequeued and the compare register is programmed with the one value the
\* scheduling part chose
StepIsrBounded(latency) ==
    /\ DequeuedByStepIsr(latency) >= 0
    /\ DequeuedByStepIsr(latency) <= max_steps
    /\ step_isr(Cur, latency).step_timer_next
            \in {step_isr_loop(Cur, 0, 0).time_increment, latency + min_reserve}

\* C32 as stated: each step_isr invocation dequeues at most max_steps step
\* events and programs the compare register once; after it returns,
\* left_ticks_to_next_step_event is non-zero only if the interval just
\* scheduled was capped at max_ticks.
C32_BoundedStepIsrAsClaimed ==
    \A latency \in Latencies :
        /\ StepIsrBounded(latency)
        /\ step_isr(Cur, latency).left_ticks_to_next_step_event # 0
            => step_isr_loop(Cur, 0, 0).time_increment >= max_ticks

\* C32, amended: each step_isr invocation dequeues at most max_steps step
\* events and programs the compare register once; when no stop is pending,
\* left_ticks_to_next_step_event is non-zero after it returns only if the
\* interval just scheduled was capped at max_ticks; when a stop is pending the
\* invocation dequeues nothing, schedules the idle period and leaves
\* left_ticks_to_next_step_event as it found it, zero or not.
C32_BoundedStepIsr ==
    \A latency \in Latencies :
        /\ StepIsrBounded(latency)
        /\ ~stop_pending
            => (step_isr(Cur, latency).left_ticks_to_next_step_event # 0
                    => step_isr_loop(Cur, 0, 0).time_increment >= max_ticks)
        /\ stop_pending
            => /\ DequeuedByStepIsr(latency) = 0
               /\ step_isr_loop(Cur, 0, 0).time_increment = stepper_isr_period_in_ticks
               /\ step_isr(Cur, latency).left_ticks_to_next_step_event
                        = left_ticks_to_next_step_event

\* the Step-ISR is about to dequeue max_steps events and to leave one queued,
\* whose delay it caps at max_ticks
C32_Witness ==
    /\ ~stop_pending
    /\ \E latency \in Latencies :
        /\ DequeuedByStepIsr(latency) = max_steps
        /\ has_step_events_queued(step_isr(Cur, latency))
        /\ step_isr(Cur, latency).left_ticks_to_next_step_event # 0

\* ------------------------------------------------------------------ C33
\* count_direction agrees with the cached direction bits in state s
DirectionCacheConsistent(s) ==
    \A axis \in AXES :
        s.stepper.count_direction[axis]
            = IF axis \in s.stepper.last_direction_bits THEN 0 - 1 ELSE 1

\* the state in which the event dispatched in s is applied: after the move
\* segment (and the block, with its sync position) was retired on a
\* BeginningOfMoveSegment marker
BeforeStepPulse(s) ==
    IF STEP_EVENT_FLAG_BEGINNING_OF_MOVE_SEGMENT \in DispatchedFlags(s)
    THEN retire_current_move_segment(s) ELSE s

\* C33: count_direction[axis] is -1 exactly when the axis's bit is set in
\* last_direction_bits and +1 otherwise; after a step event is dispatched
\* last_direction_bits equals that event's direction bits, the direction of an
\* axis is rewritten only if its bit differed from the cached one, and the
\* direction update precedes the counter update: a stepped axis is counted in
\* the direction the event carries.
C33_DirectionCache ==
    /\ DirectionCacheConsistent(Cur)
    /\ \A s \in StepIsrFetchStates : get_current_step_event(s) # nullptr =>
        /\ DirectionCacheConsistent(process_one_step_event_from_queue(s).s)
        /\ process_one_step_event_from_queue(s).s.stepper.last_direction_bits
                = {axis \in AXES : DIR_FLAG(axis) \in DispatchedFlags(s)}
        /\ \A axis \in AXES :
            /\ (DIR_FLAG(axis) \in DispatchedFlags(s)) = (axis \in s.stepper.last_direction_bits)
                => process_one_step_event_from_queue(s).s.stepper.count_direction[axis]
                        = s.stepper.count_direction[axis]
            /\ process_one_step_event_from_queue(s).s.stepper.count_position[axis]
                    = BeforeStepPulse(s).stepper.count_position[axis]
                        + (IF STEP_FLAG(axis) \notin DispatchedFlags(s) THEN 0
                           ELSE IF DIR_FLAG(axis) \in DispatchedFlags(s) THEN 0 - 1 ELSE 1)

\* the Step-ISR is about to dispatch an event that steps X in the negative
\* direction while the cached direction of X is positive
C33_Witness ==
    \E s \in StepIsrFetchStates :
        /\ get_current_step_event(s) # nullptr
        /\ {STEP_FLAG(X_AXIS), DIR_FLAG(X_AXIS)} \subseteq DispatchedFlags(s)
        /\ X_AXIS \notin s.stepper.last_direction_bits
        /\ s.stepper.count_position[X_AXIS] # 0

\* ------------------------------------------------------------------ C34
\* the events queued in StepEvQ in state s, oldest first
StepEventSeqOf(s) ==
    [k \in 1..step_event_queue_size(s) |->
        s.step_event_queue.data[(s.step_event_queue.tail + k - 1) % STEP_EVENT_QUEUE_SIZE]]

\* the number of steps the producer holds in state s: those of the events in
\* StepEvQ and those of buffered_step
StepsHeld(s) ==
    Cardinality({x \in (DOMAIN StepEventSeqOf(s)) \X STEP_EVENT_FLAG_AXIS_MASK :
                    x[2] \in StepEventSeqOf(s)[x[1]].flags})
        + Cardinality(s.step_generator_state.buffered_step.flags \cap STEP_EVENT_FLAG_AXIS_MASK)

\* seq starts with the events of prefix
StartsWith(seq, prefix) ==
    /\ Len(prefix) <= Len(seq)
    /\ \A k \in DOMAIN prefix : seq[k] = prefix[k]

\* the state after the merger's event of state s was accumulated or flushed
Buffered(s) ==
    buffer_step_event(
        generate_next_step_event(s, total_print_time - max_lookback_time).s,
        EmittedStepEvent(s))

\* the states in which one call of move_isr calls
\* process_one_move_segment_from_queue (lines 848 and 874)
MoveIsrProduceStates(elapsed) ==
    IF stop_pending THEN {}
    ELSE LET r == process_one_move_segment_from_queue(Cur) IN
         {Cur} \cup
         (IF r.status # STEP_GENERATOR_STATUS_NO_STEP_EVENT_PRODUCED THEN {}
          ELSE {q \in {process_queue_of_blocks(s, elapsed) :
                            s \in IntakeStatesFrom(r.s, 0, elapsed)} :
                    has_unprocessed_move_segments_queued(q)})

\* the state in which process_one_move_segment_from_queue, called in state s,
\* leaves its for loop
AfterProducing(s) ==
    produce_step_events(
        [(IF ~s.step_generator_state.initialized
          THEN step_generator_state_init(s, get_current_unprocessed_move_segment(s)) ELSE s)
         EXCEPT !.step_generator_state = step_generator_state_restart(@)],
        0, s.total_print_time - max_lookback_time)

\* the call that left its for loop with result ap goes on to the ending part
\* with the ending empty move at the unprocessed cursor
ReachesEndingPart(ap) ==
    /\ ~ap.full /\ ap.cnt = 0
    /\ get_current_unprocessed_move_segment(ap.s) # nullptr
    /\ is_ending_empty_move(
            ap.s.move_segment_queue.data[get_current_unprocessed_move_segment(ap.s)])

\* the ending part neither drops nor reorders a step event, and writes the
\* buffered step to StepEvQ before anything else
EndingPartKeepsSteps(before, after) ==
    /\ StepsHeld(after.s) = StepsHeld(before)
    /\ StartsWith(StepEventSeqOf(after.s), StepEventSeqOf(before))
    /\ (before.step_generator_state.buffered_step.flags # {} /\ ~after.full)
        => /\ StartsWith(StepEventSeqOf(after.s),
                         Append(StepEventSeqOf(before),
                                before.step_generator_state.buffered_step))
           /\ after.s.step_generator_state.buffered_step.flags = {}

\* C34: no step event is lost or overwritten in the producer.  Every event
\* the merger emits is merged into buffered_step or makes the producer write
\* the previous buffered_step to StepEvQ first, behind the events already
\* queued and into a free slot (the assert of line 933 never fails); the
\* ending part writes the last buffered step of a session to StepEvQ before
\* the EndOfMotion event, which is the newest event of the queue while it is
\* queued.
C34_NoStepEventLost ==
    /\ ~h_assert_failed
    /\ \A s \in MergerStates : EmitsStepEvent(s) =>
        /\ StepsHeld(Buffered(s))
                = StepsHeld(s) + Cardinality(EmittedStepEvent(s).flags \cap STEP_EVENT_FLAG_AXIS_MASK)
        /\ StartsWith(StepEventSeqOf(Buffered(s)), StepEventSeqOf(s))
        /\ EmittedStepEvent(s).flags \subseteq Buffered(s).step_generator_state.buffered_step.flags
        /\ step_event_queue_size(Buffered(s)) > step_event_queue_size(s)
            => /\ get_next_free_step_event(s) # nullptr
               /\ StepEventSeqOf(Buffered(s))
                    = Append(StepEventSeqOf(s), s.step_generator_state.buffered_step)
    /\ \A elapsed \in BOOLEAN : \A s \in MoveIsrProduceStates(elapsed) :
        get_current_unprocessed_move_segment(s) # nullptr =>
            LET ap == AfterProducing(s) IN
            ReachesEndingPart(ap) =>
                EndingPartKeepsSteps(ap.s, finish_on_ending_empty_move(ap.s))
    /\ \A k \in DOMAIN QueuedStepEventSeq : is_end_of_motion(QueuedStepEventSeq[k]) =>
        /\ k = Len(QueuedStepEventSeq)
        /\ step_generator_state.buffered_step.flags = {}

\* the producer holds a buffered step, reaches the ending empty move and
\* writes that step and the EndOfMotion event behind it
C34_Witness ==
    \E elapsed \in BOOLEAN : \E s \in MoveIsrProduceStates(elapsed) :
        /\ get_current_unprocessed_move_segment(s) # nullptr
        /\ LET ap == AfterProducing(s) IN
           /\ ReachesEndingPart(ap)
           /\ ap.s.step_generator_state.buffered_step.flags \cap STEP_EVENT_FLAG_AXIS_MASK # {}
           /\ LET after == finish_on_ending_empty_move(ap.s).s IN
              /\ step_event_queue_size(after) >= 2
              /\ is_end_of_motion(StepEventSeqOf(after)[step_event_queue_size(after)])

\* ------------------------------------------------------------------ C35
\* The Move-ISR executes its queue appends statement by statement, and the
\* Step-ISR, which has the higher priority and is never preempted itself,
\* runs as a whole between any two of these statements.
\* appends the Move-ISR begins
MaxPublished == 2

StepEventFields == {"time_ticks", "flags"}

MoveFields ==
    <<"move_t", "start_v", "half_accel", "print_time", "axes_r", "start_pos",
      "flags", "reference_cnt">>

\* the slots of StepEvQ from index from up to, not including, index to
StepEventsBetween(from, to) ==
    {(from + k) % STEP_EVENT_QUEUE_SIZE :
        k \in 0..(((to - from) % STEP_EVENT_QUEUE_SIZE) - 1)}

MoveSegmentsBetween(from, to) ==
    {(from + k) % MOVE_SEGMENT_QUEUE_SIZE :
        k \in 0..(((to - from) % MOVE_SEGMENT_QUEUE_SIZE) - 1)}

\* a store into a slot between tail and head writes over an event or a
\* segment the Step-ISR has not released
StoreIntoStepEvent(s, p, field, value) ==
    [s |-> [s EXCEPT !.step_event_queue.data[p.next_step_event][field] = value],
     p |-> [p EXCEPT !.stored = @ \cup {field},
                     !.h_unreleased_write =
                        @ \/ p.next_step_event
                                \in StepEventsBetween(s.step_event_queue.tail,
                                                   s.step_event_queue.head)]]

\* append_move_discarding_step_event advancing the head index before the
\* fields are stored
append_move_discarding_step_event_at_head_first(s, p) ==
    IF p.pc = 721
    THEN IF get_next_free_step_event(s) = nullptr
         THEN [s |-> s, p |-> [p EXCEPT !.pc = 0]]
         ELSE [s |-> s,
               p |-> [p EXCEPT !.pc = 722,
                               !.next_step_event = get_next_free_step_event(s),
                               !.next_step_event_queue_head =
                                    step_event_queue_next_index(s.step_event_queue.head),
                               !.stored = {}]]
    ELSE IF p.pc = 722
    THEN [s |-> [s EXCEPT !.step_event_queue.head = p.next_step_event_queue_head,
                          !.step_generator_state.previous_step_time = 0],
          p |-> [p EXCEPT !.pc = 723, !.h_beginnings = @ + 1]]
    ELSE IF p.pc = 723
    THEN [StoreIntoStepEvent(s, p, "time_ticks", 0) EXCEPT !.p.pc = 725]
    ELSE [StoreIntoStepEvent(s, p, "flags",
                s.step_generator_state.flags \cup {STEP_EVENT_FLAG_BEGINNING_OF_MOVE_SEGMENT})
          EXCEPT !.p.pc = 0]

\* append_move_discarding_step_event, the statement at line p.pc
append_move_discarding_step_event_at(s, p) ==
    IF p.pc = 721
    THEN IF get_next_free_step_event(s) = nullptr
         THEN [s |-> s, p |-> [p EXCEPT !.pc = 0]]
         ELSE [s |-> s,
               p |-> [p EXCEPT !.pc = 722,
                               !.next_step_event = get_next_free_step_event(s),
                               !.next_step_event_queue_head =
                                    step_event_queue_next_index(s.step_event_queue.head),
                               !.stored = {}]]
    ELSE IF p.pc = 722
    THEN [StoreIntoStepEvent(s, p, "time_ticks", 0) EXCEPT !.p.pc = 723]
    ELSE IF p.pc = 723
    THEN [StoreIntoStepEvent(s, p, "flags",
                s.step_generator_state.flags \cup {STEP_EVENT_FLAG_BEGINNING_OF_MOVE_SEGMENT})
          EXCEPT !.p.pc = 725]
    ELSE [s |-> [s EXCEPT !.step_event_queue.head = p.next_step_event_queue_head,
                          !.step_generator_state.previous_step_time = 0],
          p |-> [p EXCEPT !.pc = 0, !.h_beginnings = @ + 1]]

\* the flush of buffered_step in process_one_move_segment_from_queue (lines
\* 905-942), the statement at line p.pc; the structure assignment of line 935
\* stores the fields one by one, in an order the build chooses
flush_buffered_step_at(s, p, field) ==
    IF p.pc = 905
    THEN IF get_next_free_step_event(s) = nullptr
         THEN [s |-> s, p |-> [p EXCEPT !.pc = 0]]
         ELSE [s |-> s,
               p |-> [p EXCEPT !.pc = 935,
                               !.next_step_event = get_next_free_step_event(s),
                               !.next_step_event_queue_head =
                                    step_event_queue_next_index(s.step_event_queue.head),
                               !.stored = {}]]
    ELSE IF p.pc = 935
    THEN [StoreIntoStepEvent(s, p, field, s.step_generator_state.buffered_step[field])
          EXCEPT !.p.pc = IF p.stored \cup {field} = StepEventFields THEN 941 ELSE 935]
    ELSE [s |-> [s EXCEPT !.step_event_queue.head = p.next_step_event_queue_head],
          p |-> [p EXCEPT !.pc = 0]]

\* append_move_segment_to_queue, the statement at line p.pc: lines 124-131
\* store the fields of the segment in the order of MoveFields
append_move_segment_to_queue_at(s, p) ==
    IF p.pc = 123
    THEN IF get_next_free_move_segment(s) = nullptr
         THEN [s |-> s, p |-> [p EXCEPT !.pc = 0]]
         ELSE [s |-> s,
               p |-> [p EXCEPT !.pc = 124,
                               !.m = get_next_free_move_segment(s),
                               !.next_move_segment_queue_head =
                                    move_segment_queue_next_index(s.move_segment_queue.head),
                               !.stored = {}]]
    ELSE IF p.pc \in 124..131
    THEN [s |-> [s EXCEPT !.move_segment_queue.data[p.m][MoveFields[p.pc - 123]] =
                                p.move[MoveFields[p.pc - 123]]],
          p |-> [p EXCEPT !.pc = @ + 1,
                          !.stored = @ \cup {MoveFields[p.pc - 123]},
                          !.h_unreleased_write =
                                @ \/ p.m \in MoveSegmentsBetween(s.move_segment_queue.tail,
                                                              s.move_segment_queue.head)]]
    ELSE [s |-> [s EXCEPT !.move_segment_queue.head = p.next_move_segment_queue_head],
          p |-> [p EXCEPT !.pc = 0, !.h_moves = @ + 1]]

\* the slot an append has obtained and not yet written completely
IncompleteStepEvents(p) ==
    IF p.pc \in {722, 723, 725, 935, 941} /\ p.stored # StepEventFields
    THEN {p.next_step_event} ELSE {}

IncompleteMoveSegments(p) ==
    IF p.pc \in 124..132 /\ p.stored # {MoveFields[k] : k \in DOMAIN MoveFields}
    THEN {p.m} ELSE {}

\* the slots one call of step_isr reads: the events it dispatches and the
\* event it peeks at behind them (line 578); the segments it retires, whose
\* flags it reads (line 510)
StepEventsRead(s, after) ==
    IF after.step_event_queue.tail = s.step_event_queue.tail THEN {}
    ELSE StepEventsBetween(s.step_event_queue.tail, after.step_event_queue.tail)
            \cup (IF has_step_events_queued(after) THEN {after.step_event_queue.tail} ELSE {})

MoveSegmentsRead(s, after) ==
    MoveSegmentsBetween(s.move_segment_queue.tail, after.move_segment_queue.tail)

\* the segments the Move-ISR appends
PublishedMoves ==
    {[EmptyMove EXCEPT !.move_t = 2, !.print_time = t, !.flags = {MOVE_FLAG_CRUISE_PHASE}] :
        t \in {0, 2}}

\* the steps the merger has left in buffered_step
PublishedSteps ==
    {[time_ticks |-> ticks, flags |-> {STEP_FLAG(X_AXIS), ACTIVE_FLAG(X_AXIS)}] :
        ticks \in {min_delay, max_ticks}}

\* one statement of append_move_discarding_step_event; a discarding event is
\* owed for a segment that is in the queue
AppendMoveDiscardingStepEventStatement ==
    /\ \/ /\ producer.pc = 0
          /\ producer.h_step_events < MaxPublished
          /\ producer.h_beginnings < producer.h_moves
       \/ producer.pc \in {722, 723, 725}
    /\ LET r == append_move_discarding_step_event_at(
                    Cur,
                    IF producer.pc = 0
                    THEN [producer EXCEPT !.pc = 721, !.h_step_events = @ + 1]
                    ELSE producer) IN
       /\ Store(r.s)
       /\ producer' = r.p
    /\ UNCHANGED <<h_blocks_fed, h_stops, h_flushed, h_inert, h_isr,
                   spool_join, h_spool_join_hung>>

\* one statement of the flush of a step the merger has buffered
FlushBufferedStepStatement ==
    /\ \/ /\ producer.pc = 0
          /\ producer.h_step_events < MaxPublished
          /\ \E step \in PublishedSteps :
                LET r == flush_buffered_step_at(
                            [Cur EXCEPT !.step_generator_state.buffered_step = step],
                            [producer EXCEPT !.pc = 905, !.h_step_events = @ + 1],
                            "flags") IN
                /\ Store(r.s)
                /\ producer' = r.p
       \/ /\ producer.pc \in {935, 941}
          /\ \E field \in StepEventFields :
                /\ producer.pc = 935 => field \notin producer.stored
                /\ producer.pc = 941 => field = "flags"
                /\ LET r == flush_buffered_step_at(Cur, producer, field) IN
                   /\ Store(r.s)
                   /\ producer' = r.p
    /\ UNCHANGED <<h_blocks_fed, h_stops, h_flushed, h_inert, h_isr,
                   spool_join, h_spool_join_hung>>

\* one statement of append_move_segment_to_queue
AppendMoveSegmentStatement ==
    /\ \/ /\ producer.pc = 0
          /\ producer.h_moves < MaxPublished
          /\ \E move \in PublishedMoves :
                LET r == append_move_segment_to_queue_at(
                            Cur, [producer EXCEPT !.pc = 123, !.move = move]) IN
                /\ Store(r.s)
                /\ producer' = r.p
       \/ /\ producer.pc \in 124..132
          /\ LET r == append_move_segment_to_queue_at(Cur, producer) IN
             /\ Store(r.s)
             /\ producer' = r.p
    /\ UNCHANGED <<h_blocks_fed, h_stops, h_flushed, h_inert, h_isr,
                   spool_join, h_spool_join_hung>>

\* the Step-ISR preempts the Move-ISR wherever it is
PreemptingStepIsr ==
    /\ \E latency \in Latencies :
            /\ latency # 1 => step_dl_miss < MaxMiss
            /\ Store(step_isr(Cur, latency))
            /\ producer' =
                [producer EXCEPT !.h_incomplete_read =
                    \/ @
                    \/ StepEventsRead(Cur, step_isr(Cur, latency))
                            \cap IncompleteStepEvents(producer) # {}
                    \/ MoveSegmentsRead(Cur, step_isr(Cur, latency))
                            \cap IncompleteMoveSegments(producer) # {}]
    /\ UNCHANGED <<h_blocks_fed, h_stops, h_flushed, h_inert, h_isr,
                   spool_join, h_spool_join_hung>>

NextPublish ==
    \/ AppendMoveDiscardingStepEventStatement
    \/ FlushBufferedStepStatement
    \/ AppendMoveSegmentStatement
    \/ PreemptingStepIsr

SpecPublish == Init /\ [][NextPublish]_vars

\* C35: the Step-ISR, preempting the Move-ISR between any two statements,
\* never reads a step event or a move segment whose fields are not all
\* stored, the Move-ISR never stores into a slot between tail and head, and
\* while a slot is being written the head index has not been advanced over
\* it.
C35_PublicationOrder ==
    /\ ~producer.h_incomplete_read
    /\ ~producer.h_unreleased_write
    /\ ~h_null_deref
    /\ IncompleteStepEvents(producer)
            \cap StepEventsBetween(step_event_queue.tail, step_event_queue.head) = {}
    /\ IncompleteMoveSegments(producer)
            \cap MoveSegmentsBetween(move_segment_queue.tail, move_segment_queue.head) = {}

\* the Step-ISR has dispatched an event, retired a segment and emptied StepEvQ
\* while the Move-ISR is in the middle of writing the next step event
C35_Witness ==
    /\ producer.pc \in {723, 935}
    /\ producer.stored # {} /\ producer.stored # StepEventFields
    /\ ~has_step_events_queued(Cur)
    /\ producer.h_beginnings > 0
    /\ move_segment_queue.tail # 0

\* ------------------------------------------------------------ SpoolJoin
\* The SpoolJoin object under any sequence of reset, add_join and
\* remove_joins_containing calls, every tool enabled.
engine_vars ==
    <<move_segment_queue, step_event_queue, step_generator_state,
      classic_step_generator, total_print_time, total_start_pos,
      total_start_pos_steps, left_ticks_to_next_step_event,
      waiting_before_delivering_start_time, stop_pending, step_dl_miss,
      step_ev_miss, planner, stepper, step_timer_next,
      h_taken, h_retired, h_appended, h_direct, h_refused, h_kinds, h_fed,
      h_expected, h_negative_step_time, h_first_step_time, h_time_ticks,
      h_last_step_time, h_assert_failed, h_null_deref,
      h_blocks_fed, h_stops, h_flushed, h_inert, h_isr, producer>>

Spools == 0..(EXTRUDERS - 1)

SpoolJoinReset ==
    /\ ~h_spool_join_hung
    /\ spool_join' = spool_join_reset(spool_join)
    /\ UNCHANGED <<engine_vars, h_spool_join_hung>>

\* a call of add_join whose loop never ends hangs the caller
SpoolJoinAddJoin ==
    /\ ~h_spool_join_hung
    /\ \E spool_1 \in Spools : \E spool_2 \in Spools :
            /\ spool_join' = add_join(spool_join, spool_1, spool_2).sj
            /\ h_spool_join_hung' = add_join(spool_join, spool_1, spool_2).diverged
    /\ UNCHANGED engine_vars

SpoolJoinRemoveJoinsContaining ==
    /\ ~h_spool_join_hung
    /\ \E spool \in Spools :
            spool_join' = remove_joins_containing(spool_join, spool).sj
    /\ UNCHANGED <<engine_vars, h_spool_join_hung>>

NextSpoolJoin == SpoolJoinReset \/ SpoolJoinAddJoin \/ SpoolJoinRemoveJoinsContaining

SpecSpoolJoin == Init /\ [][NextSpoolJoin]_vars

\* the active joins of a table, as a relation
ActiveJoins(sj) ==
    {<<sj.joins[i].spool_1, sj.joins[i].spool_2>> : i \in 0..(sj.num_joins - 1)}

\* the spools that are reached from spool a over at most n joins of joined
RECURSIVE ReachedWithin(_, _, _)
ReachedWithin(joined, a, n) ==
    IF n = 0 THEN {a}
    ELSE LET before == ReachedWithin(joined, a, n - 1) IN
         before \cup {e[2] : e \in {f \in joined : f[1] \in before}}

Reached(joined, a) == ReachedWithin(joined, a, joins_size)

Acyclic(joined) == \A e \in joined : e[1] \notin Reached(joined, e[2])

\* ------------------------------------------------------------------ C37
\* C37: after any sequence of reset, add_join and remove_joins_containing
\* calls the relation spool_1 -> spool_2 over the active joins has no cycle,
\* and add_join returns false and changes nothing for a join that would
\* close one.
C37_NoLoop ==
    /\ Acyclic(ActiveJoins(spool_join))
    /\ ~h_spool_join_hung
    /\ \A spool_1 \in Spools : \A spool_2 \in Spools :
        LET r == add_join(spool_join, spool_1, spool_2) IN
            (~r.diverged /\ ~Acyclic(ActiveJoins(r.sj))) => (~r.ok /\ r.sj = spool_join)

\* ------------------------------------------------------------------ C38
SimpleChains(joined) ==
    \A e \in joined : \A f \in joined :
        (e[1] = f[1] \/ e[2] = f[2]) => e = f

\* the last spool of the chain of joined that starts at spool a: the spool
\* reached from a that is the spool_1 of no join
LastSpools(joined, a) ==
    {b \in Reached(joined, a) : \A e \in joined : e[1] # b}

\* C38: after any sequence of reset, add_join and remove_joins_containing
\* calls every spool is the spool_1 of at most one active join and the
\* spool_2 of at most one; a successful add_join(a, b) adds exactly the join
\* from the last spool of the chain starting at a to b, wherever the joins of
\* that chain are in the array.
C38_SimpleChains ==
    /\ SimpleChains(ActiveJoins(spool_join))
    /\ spool_join.num_joins = Cardinality(ActiveJoins(spool_join))
    /\ \A spool_1 \in Spools : \A spool_2 \in Spools :
        LET r == add_join(spool_join, spool_1, spool_2) IN
            r.ok => /\ r.sj.num_joins = spool_join.num_joins + 1
                    /\ \E last \in LastSpools(ActiveJoins(spool_join), spool_1) :
                            ActiveJoins(r.sj)
                                = ActiveJoins(spool_join) \cup {<<last, spool_2>>}

\* ------------------------------------------------------------------ C39
\* the active joins that mention a spool
Mentioning(joined, spool) == {e \in joined : e[1] = spool \/ e[2] = spool}

\* the active joins are packed in joins[0..num_joins) and every slot at or
\* beyond num_joins holds reset_value
Packed(sj) ==
    /\ sj.num_joins \in 0..joins_size
    /\ \A i \in 0..(joins_size - 1) :
        IF i < sj.num_joins
        THEN sj.joins[i].spool_1 \in Spools /\ sj.joins[i].spool_2 \in Spools
        ELSE sj.joins[i] = EmptyJoin

\* what remove_joins_containing(spool) is to do with the table sj, r being
\* what it did
RemovesJoinsContaining(sj, spool, r) ==
    LET joined == ActiveJoins(sj)
        preceding == {e \in joined : e[2] = spool}
        followup == {e \in joined : e[1] = spool}
    IN  /\ Packed(r.sj)
        /\ Mentioning(joined, spool) = {} => (~r.ok /\ r.sj = sj)
        /\ Mentioning(joined, spool) # {} =>
            /\ r.ok
            /\ r.sj.num_joins = sj.num_joins - 1
            /\ Mentioning(ActiveJoins(r.sj), spool) = {}
            /\ (preceding # {} /\ followup # {}) =>
                    \E p \in preceding : \E n \in followup :
                        ActiveJoins(r.sj)
                            = (joined \ Mentioning(joined, spool)) \cup {<<p[1], n[2]>>}
            /\ (preceding = {} \/ followup = {}) =>
                    ActiveJoins(r.sj) = joined \ Mentioning(joined, spool)

\* C39: remove_joins_containing(s) turns p -> s -> n into p -> n with no
\* active join mentioning s, removes the single join of s when s is only the
\* first or only the last spool of a chain, returns true and decreases
\* num_joins by exactly one in these cases, and returns false leaving the
\* table unchanged when no join mentions s; the active joins stay packed in
\* joins[0..num_joins) and the slots at or beyond num_joins hold reset_value.
C39_RemoveJoinsContaining ==
    /\ Packed(spool_join)
    /\ \A spool \in Spools :
        RemovesJoinsContaining(spool_join, spool, remove_joins_containing(spool_join, spool))

\* the same for the tables that are simple chains without a loop
C39_RemoveJoinsContainingInChains ==
    (SimpleChains(ActiveJoins(spool_join)) /\ Acyclic(ActiveJoins(spool_join))) =>
        C39_RemoveJoinsContaining

\* ------------------------------------------------------------------ C40
\* C40: for every table reached through reset, add_join and
\* remove_joins_containing, deserialize(serialize(table)) returns and
\* restores the same set of (spool_1, spool_2) joins and the same num_joins.
C40_SerializeRoundTrip ==
    LET restored == deserialize(spool_join, serialize(spool_join)) IN
        /\ ~restored.diverged
        /\ ActiveJoins(restored.sj) = ActiveJoins(spool_join)
        /\ restored.sj.num_joins = spool_join.num_joins

\* the same for the tables that are simple chains without a loop
C40_SerializeRoundTripInChains ==
    (SimpleChains(ActiveJoins(spool_join)) /\ Acyclic(ActiveJoins(spool_join))) =>
        C40_SerializeRoundTrip

====
